---- MODULE Spec2Model ----
(***************************************************************************)
(* A model of package cli (github.com/jba/cli): the command tree built by  *)
(* Top and Register, the dispatch of an argument vector by Command.Run and *)
(* Command.mainWithArgs, and the binding of positional arguments by        *)
(* Command.bindFormals.                                                    *)
(***************************************************************************)
EXTENDS Integers, Sequences, FiniteSets, TLC

VARIABLES
    cmds,           \* the Commands created so far; cmds[1] is the top command
    fields,         \* fields[i][k]: field k of the struct that cmds[i].Struct points to
    errorHandling,  \* the error handling of flag.CommandLine, the top command's flag set
    pc,             \* "build": registering, "idle": between calls, "returned": a call returned
    ret             \* what the last call returned, until the caller drops it

vars == <<cmds, fields, errorHandling, pc, ret>>

----------------------------------------------------------------------------
(* Bounds of the model.                                                    *)

MaxNodes == 3       \* Commands in a tree, the top command included
MaxArgs == 3        \* length of an argument vector given to Run
MaxFormals == 3     \* length of a formal list given to bindFormals
MaxMin == 2         \* largest min of a rest formal
MaxBindArgs == 4    \* length of an argument vector given to bindFormals

----------------------------------------------------------------------------
(* Strings.  TLC reads a string as the sequence of its characters: Head,   *)
(* Tail, SubSeq, Len and \o work on it, and SubSeq(s, i, i) is the         *)
(* character i as a string of length 1.                                    *)

\* The characters of the string s, one by one.
CharsOf(s) == [i \in 1..Len(s) |-> SubSeq(s, i, i)]

DigitVal == [d \in {"0", "1", "2", "3", "4", "5", "6", "7", "8", "9"} |->
                CASE d = "0" -> 0 [] d = "1" -> 1 [] d = "2" -> 2 [] d = "3" -> 3
                  [] d = "4" -> 4 [] d = "5" -> 5 [] d = "6" -> 6 [] d = "7" -> 7
                  [] d = "8" -> 8 [] d = "9" -> 9]

RECURSIVE digitsValue(_, _)
digitsValue(cs, acc) ==
    IF cs = <<>> THEN acc
    ELSE digitsValue(Tail(cs), acc * 10 + DigitVal[Head(cs)])

\* strconv.ParseInt(s, 10, 64): an optional sign, then one or more decimal digits.
\* (No string of the model is near the 64-bit range.)
parseDigits(neg, ds) ==
    IF ds = <<>> \/ \E i \in 1..Len(ds) : ds[i] \notin DOMAIN DigitVal
    THEN [ok |-> FALSE, v |-> 0, err |-> "invalid syntax"]
    ELSE [ok |-> TRUE, v |-> (IF neg THEN -1 ELSE 1) * digitsValue(ds, 0), err |-> ""]

parseSigned(cs) ==
    IF cs # <<>> /\ Head(cs) \in {"-", "+"} THEN parseDigits(Head(cs) = "-", Tail(cs))
    ELSE parseDigits(FALSE, cs)

ParseInt(s) == parseSigned(CharsOf(s))

\* strconv.ParseUint(s, 10, 64): one or more decimal digits, no sign.
ParseUint(s) == parseDigits(FALSE, CharsOf(s))

LowerCase == "abcdefghijklmnopqrstuvwxyz"
UpperCase == "ABCDEFGHIJKLMNOPQRSTUVWXYZ"

\* strings.Index(s, sep) for a sep of one character, counted from 1: 0 when sep
\* is not in s.
RECURSIVE IndexFrom(_, _, _)
IndexFrom(s, sep, i) ==
    IF i > Len(s) THEN 0
    ELSE IF SubSeq(s, i, i) = sep THEN i
    ELSE IndexFrom(s, sep, i + 1)

\* unicode.IsSpace, on the white space that a tag is written with.
IsSpace(ch) == ch \in {" ", "\t"}

\* strings.TrimSpace(s)
RECURSIVE TrimLeft(_)
TrimLeft(s) == IF s # "" /\ IsSpace(Head(s)) THEN TrimLeft(Tail(s)) ELSE s

RECURSIVE TrimRight(_)
TrimRight(s) ==
    IF s # "" /\ IsSpace(SubSeq(s, Len(s), Len(s)))
    THEN TrimRight(SubSeq(s, 1, Len(s) - 1))
    ELSE s

TrimSpace(s) == TrimRight(TrimLeft(s))

\* The character ch, or the one at its place i in the other case.
caseOf(ch, i, other) == IF i = 0 THEN ch ELSE SubSeq(other, i, i)

\* strings.ToLower and strings.ToUpper, character by character.
RECURSIVE ToLower(_)
ToLower(s) ==
    IF s = "" THEN ""
    ELSE caseOf(Head(s), IndexFrom(UpperCase, Head(s), 1), LowerCase) \o ToLower(Tail(s))

RECURSIVE ToUpper(_)
ToUpper(s) ==
    IF s = "" THEN ""
    ELSE caseOf(Head(s), IndexFrom(LowerCase, Head(s), 1), UpperCase) \o ToUpper(Tail(s))

----------------------------------------------------------------------------
(* Parsers (parsers.go).  A parseFunc is a closure over the type it parses *)
(* into; the model keeps what the closure captured, [fn, kind], and        *)
(* applies it with parser(p, s).                                           *)

\* Kinds that parserForType has a case for: string and int, and the integers
\* of 8 bits, signed and unsigned.
ScalarKinds == {"string", "int"}
NarrowKinds == {"int8", "uint8"}

\* strings.Split(s, sep) for a sep of one character; i is the place of the first
\* sep in s.
RECURSIVE Split(_, _)
splitAt(s, sep, i) ==
    IF i = 0 THEN <<s>>
    ELSE <<SubSeq(s, 1, i - 1)>> \o Split(SubSeq(s, i + 1, Len(s)), sep)

Split(s, sep) == splitAt(s, sep, IndexFrom(s, sep, 1))

\* strings.Join(elems, sep)
RECURSIVE Join(_, _)
Join(elems, sep) ==
    IF elems = <<>> THEN ""
    ELSE IF Len(elems) = 1 THEN elems[1]
    ELSE elems[1] \o sep \o Join(Tail(elems), sep)

\* A nil []string, and the slice of the choices cs.
NoChoices == [nil |-> TRUE, s |-> <<>>]
Choices(cs) == [nil |-> FALSE, s |-> cs]

\* What buildParser returns: err is its error ("" for nil); the parseFunc is
\* what the closure captured: fn, the kind it parses into, and the choices.
\* elfn is the fn of the element parser that the closure of parserForSlice holds.
NoParser(err) ==
    [ok |-> FALSE, fn |-> "", kind |-> "", choices |-> NoChoices, elfn |-> "", err |-> err]
ParseFunc(fn, kind, choices) ==
    [ok |-> TRUE, fn |-> fn, kind |-> kind, choices |-> choices, elfn |-> "", err |-> ""]

parserForOneof(choices) == ParseFunc("oneof", "string", choices)

parserForType(kind, choices) ==
    IF ~choices.nil
    THEN (IF kind # "string" THEN NoParser("oneof must be string type")
          ELSE parserForOneof(choices))
    ELSE IF kind \in ScalarKinds \cup NarrowKinds THEN ParseFunc("type", kind, choices)
    ELSE NoParser("cannot parse string into")

\* parserForSlice, once parserForType returned elp for the element.
sliceOf(elp) == IF ~elp.ok THEN elp ELSE [elp EXCEPT !.fn = "slice", !.elfn = elp.fn]

parserForSlice(elem, choices) == sliceOf(parserForType(elem, choices))

\* t is a field's type: its kind and, for a slice, its element's kind.
buildParser(t, choices, isFlag) ==
    IF t.kind # "slice" THEN parserForType(t.kind, choices)
    ELSE IF isFlag THEN parserForSlice(t.elem, choices)
    ELSE parserForType(t.elem, choices)

\* What a parseFunc returns: the value, or the error.
Value(v) == [ok |-> TRUE, v |-> v, err |-> ""]
ParseError(err) == [ok |-> FALSE, v |-> 0, err |-> err]

\* checkOneof that trims its input before it compares.
checkOneofTrimmed(s, choices) ==
    IF \E i \in 1..Len(choices.s) : TrimSpace(s) = choices.s[i] THEN ""
    ELSE "must be one of: " \o Join(choices.s, ", ")

\* checkOneof(s, choices): "" for nil.
checkOneof(s, choices) ==
    IF \E i \in 1..Len(choices.s) : s = choices.s[i] THEN ""
    ELSE "must be one of: " \o Join(choices.s, ", ")

\* reflect's Convert of the 64-bit integer i to the integer type kind: the low
\* 8 bits of i, read as signed or unsigned.
convert(kind, i) ==
    CASE kind = "int8" -> ((i + 128) % 256) - 128
      [] kind = "uint8" -> i % 256
      [] OTHER -> i

\* The closures of parserForType for the integers: r is what strconv returned.
converted(kind, r) == IF ~r.ok THEN r ELSE Value(convert(kind, r.v))

\* The closure of parserForOneof: err is what checkOneof returned.
oneofChecked(s, err) == IF err # "" THEN ParseError(err) ELSE Value(s)

\* The scalar parseFunc [fn, kind, choices] applied to s.
scalar(fn, kind, choices, s) ==
    CASE fn = "oneof" -> oneofChecked(s, checkOneof(s, choices))
      [] fn = "type" /\ kind = "string" -> Value(s)
      [] fn = "type" /\ kind \in {"int", "int8"} -> converted(kind, ParseInt(s))
      [] fn = "type" /\ kind = "uint8" -> converted(kind, ParseUint(s))

\* strconv.Quote(s), for a string without quotes or escapes in it.
Quote(s) == "\"" \o s \o "\""

\* The loop of the closure of parserForSlice over parts[i..], with the slice
\* filled so far; el is what the element parser returned for the trimmed part p.
RECURSIVE sliceLoop(_, _, _, _)
sliceElem(p, parts, i, slice, part, el) ==
    IF ~el.ok THEN ParseError(Quote(part) \o ": " \o el.err)
    ELSE sliceLoop(p, parts, i + 1, Append(slice, el.v))

sliceTrimmed(p, parts, i, slice, part) ==
    sliceElem(p, parts, i, slice, part, scalar(p.elfn, p.kind, p.choices, part))

\* The loop that gives each part to the element parser as it was split off.
sliceLoopUntrimmed(p, parts, i, slice) ==
    IF i > Len(parts) THEN Value([nil |-> FALSE, s |-> slice])
    ELSE sliceTrimmed(p, parts, i, slice, parts[i])

sliceLoop(p, parts, i, slice) ==
    IF i > Len(parts) THEN Value([nil |-> FALSE, s |-> slice])
    ELSE sliceTrimmed(p, parts, i, slice, TrimSpace(parts[i]))

\* The parseFunc p applied to s: a value, or an error.
parser(p, s) ==
    IF p.fn = "slice" THEN sliceLoop(p, Split(s, ","), 1, <<>>)
    ELSE scalar(p.fn, p.kind, p.choices, s)

----------------------------------------------------------------------------
(* Errors.  typ is the dynamic type of the error: "usage" for *UsageError, *)
(* "error" for any other error, "nil" for no error.  cmd is UsageError.cmd *)
(* (0 for nil); msg, name, n, got are what the message is formatted from.  *)

Nil == [typ |-> "nil", cmd |-> 0, msg |-> "", name |-> "", n |-> 0, got |-> 0]

\* &UsageError{cmd: c, Err: ...}
UsageError(c, msg, name) ==
    [typ |-> "usage", cmd |-> c, msg |-> msg, name |-> name, n |-> 0, got |-> 0]

\* NewUsageError(err): no command attached.
NewUsageError(msg) == UsageError(0, msg, "")

\* errors.New and fmt.Errorf
Errorf(msg, name) ==
    [typ |-> "error", cmd |-> 0, msg |-> msg, name |-> name, n |-> 0, got |-> 0]

\* errors.Is(err, flag.ErrHelp): the error is ErrHelp or a UsageError wrapping it.
IsErrHelp(err) == err.typ # "nil" /\ err.msg = "flag: help requested"

\* errors.As(err, &uerr)
AsUsageError(err) == err.typ = "usage"

----------------------------------------------------------------------------
(* The structs that commands are declared with.  Command.Struct is modelled *)
(* by the struct's type: its fields (name, type and struct tag: the whole  *)
(* tag, which names the cli key or is itself the cli specification) and the *)
(* methods it has, Run (it is Runnable) and Before.  The values of the     *)
(* fields are in the variable fields.                                      *)

TString == [kind |-> "string", elem |-> ""]
TInt == [kind |-> "int", elem |-> ""]
TSlice(elem) == [kind |-> "slice", elem |-> elem]

\* The zero value of a type.  A slice value is nil, or holds elements.
NilSlice == [nil |-> TRUE, s |-> <<>>]
Zero(t) == CASE t.kind = "string" -> ""
             [] t.kind \in {"int", "int8", "uint8"} -> 0
             [] t.kind = "slice" -> NilSlice

EmptyMap == [k \in {} |-> ""]

\* m[k] of a Go map: the zero value when k is absent.
Get(m, k) == IF k \in DOMAIN m THEN m[k] ELSE ""

StructNames == {"nil", "c", "c1", "suberr"}

\* "nil" is a nil Command.Struct.  c is a group with a flag and a Before hook,
\* c1 a command with one positional argument, suberr a command with no fields.
Structs ==
    [st \in StructNames |->
        CASE st = "nil" -> [name |-> st, runnable |-> FALSE, before |-> FALSE, fields |-> <<>>]
          [] st = "c" ->
                [name |-> st, runnable |-> FALSE, before |-> TRUE,
                 fields |-> << [Name |-> "F", exported |-> TRUE, type |-> TInt,
                                tag |-> "flag="] >>]
          [] st = "c1" ->
                [name |-> st, runnable |-> TRUE, before |-> FALSE,
                 fields |-> << [Name |-> "A", exported |-> TRUE, type |-> TInt,
                                tag |-> ""] >>]
          [] st = "suberr" -> [name |-> st, runnable |-> TRUE, before |-> FALSE, fields |-> <<>>]]

\* The decimal digit that strconv.Atoi reads as n.
DigitStr(n) == CHOOSE d \in DOMAIN DigitVal : DigitVal[d] = n

\* The fields of the structs whose positional arguments are bound: a string or an
\* int, marked opt or not, or a slice of those with a min (min -1: not a slice).
FieldNames == <<"A", "B", "C", "D">>
ArgFields ==
    [kind : ScalarKinds, opt : BOOLEAN, min : {-1}]
        \cup [kind : ScalarKinds, opt : BOOLEAN, min : 0..MaxMin]

\* Field k of such a struct, with the cli tag that says what fd says.
ArgField(fd, k) ==
    [Name |-> FieldNames[k], exported |-> TRUE,
     type |-> IF fd.min >= 0 THEN TSlice(fd.kind) ELSE [kind |-> fd.kind, elem |-> ""],
     tag |-> (IF fd.opt THEN "opt=" ELSE "")
                \o (IF fd.opt /\ fd.min >= 0 THEN ", " ELSE "")
                \o (IF fd.min >= 0 THEN "min=" \o DigitStr(fd.min) ELSE "")]

\* A Runnable struct with the fields fds.
ArgStruct(fds) ==
    [name |-> "args", runnable |-> TRUE, before |-> FALSE,
     fields |-> [k \in 1..Len(fds) |-> ArgField(fds[k], k)]]

\* c.Struct.(Runnable)
Runnable(st) == st.runnable

\* The struct a new Command points to: every field at its zero value.
ZeroStruct(st) ==
    [k \in 1..Len(st.fields) |-> Zero(st.fields[k].type)]

----------------------------------------------------------------------------
(* Registration (registration.go).                                         *)

\* &Command{Name: name, Struct: st} with its unexported fields at zero.
NewCommand(name, st) ==
    [Name |-> name, Struct |-> st, flags |-> <<>>, isCommandLine |-> FALSE,
     formals |-> <<>>, subs |-> <<>>, super |-> 0]

\* The character classes of keyRegexp.
LowerLetters == {SubSeq(LowerCase, i, i) : i \in 1..Len(LowerCase)}
UpperLetters == {SubSeq(UpperCase, i, i) : i \in 1..Len(UpperCase)}
DecimalDigits == {"0", "1", "2", "3", "4", "5", "6", "7", "8", "9"}

\* stringsCut(s, sep), once strings.Index returned i.
cutAt(s, i) ==
    IF i > 0
    THEN [before |-> SubSeq(s, 1, i - 1), after |-> SubSeq(s, i + 1, Len(s)), found |-> TRUE]
    ELSE [before |-> s, after |-> "", found |-> FALSE]

stringsCut(s, sep) == cutAt(s, IndexFrom(s, sep, 1))

\* The number of characters of [A-Za-z0-9] that s starts with.
RECURSIVE alnumRun(_)
alnumRun(s) ==
    IF s # "" /\ Head(s) \in LowerLetters \cup UpperLetters \cup DecimalDigits
    THEN 1 + alnumRun(Tail(s))
    ELSE 0

\* keyRegexp.FindStringIndex(tag) for ^[A-Za-z][A-Za-z0-9]+= : loc[1], the place
\* of the "=" counted from 1, or 0 for a nil loc. n is the run of alphanumerics
\* that tag starts with: the key is a letter and at least one more character.
keyRegexpLoc(tag, n) ==
    IF /\ n >= 2
       /\ Head(tag) \in LowerLetters \cup UpperLetters
       /\ n < Len(tag)
       /\ SubSeq(tag, n + 1, n + 1) = "="
    THEN n + 1
    ELSE 0

keyRegexp(tag) == keyRegexpLoc(tag, alnumRun(tag))

\* m[k] = v
Put(m, k, v) == [x \in DOMAIN m \cup {k} |-> IF x = k THEN v ELSE m[x]]

\* tagToMap(tag): the loop, with the map m built so far.
RECURSIVE tagLoop(_, _)
tagCut(m, key, tag, cut) ==
    tagLoop(Put(m, key, TrimSpace(IF cut.found THEN cut.before ELSE tag)),
            IF cut.found THEN TrimSpace(cut.after) ELSE "")

tagKey(m, tag, loc) ==
    IF loc = 0 THEN Put(m, "doc", tag)
    ELSE tagCut(m, SubSeq(tag, 1, loc - 1), SubSeq(tag, loc + 1, Len(tag)),
                stringsCut(SubSeq(tag, loc + 1, Len(tag)), ","))

tagLoop(m, tag) == IF Len(tag) > 0 THEN tagKey(m, tag, keyRegexp(tag)) ELSE m

tagToMap(tag) == tagLoop(EmptyMap, TrimSpace(tag))

validKeys == {"flag", "name", "min", "oneof", "doc", "opt"}

\* What parseTag and processFields return: the error, and the Command as it is left.
Left(err, c) == [err |-> err, c |-> c]

\* parseTag, the flag branch: define the flag on c.flags.  value is what the
\* flag is defined with: "bool" for BoolVar, "oneof" for Var(&oneof{choices}),
\* whose Set checks the choices and keeps the string in the oneof, and "func"
\* for Func with the closure that parses and sets the field.
parseTagFlag(c, sf, k, tagMap, p, fname) ==
    Left(Nil, [c EXCEPT !.flags = Append(@,
        [name |-> IF Head(fname) = "-" THEN Tail(fname) ELSE fname,
         field |-> k, usage |-> Get(tagMap, "doc"),
         isBool |-> sf.type.kind = "bool",
         value |-> IF sf.type.kind = "bool" THEN "bool"
                   ELSE IF ~p.choices.nil /\ sf.type.kind # "slice" THEN "oneof"
                   ELSE "func",
         parser |-> p])])

\* parseTag, the end of the positional branch: min is strconv.Atoi of the min key.
parseTagMin(c, sf, tagMap, f, min) ==
    IF sf.type.kind = "slice"
    THEN (IF "min" \notin DOMAIN tagMap
          THEN Left(Nil, [c EXCEPT !.formals = Append(@, [f EXCEPT !.min = 0])])
          ELSE IF ~min.ok THEN Left(Errorf("min", sf.Name), c)
          ELSE IF min.v < 0 THEN Left(Errorf("min cannot be negative", sf.Name), c)
          ELSE Left(Nil, [c EXCEPT !.formals = Append(@, [f EXCEPT !.min = min.v])]))
    ELSE IF "min" \in DOMAIN tagMap THEN Left(Errorf("min is only for slice args", sf.Name), c)
    ELSE Left(Nil, [c EXCEPT !.formals = Append(@, f)])

\* parseTagFormal that names the Formal by the field name as it is written.
parseTagFormalFieldName(c, sf, k, tagMap, p, name) ==
    IF Get(tagMap, "opt") # "" THEN Left(Errorf("\"opt\" should not have a value", sf.Name), c)
    ELSE parseTagMin(c, sf, tagMap,
            [name |-> IF name = "" THEN sf.Name ELSE name,
             field |-> k, usage |-> Get(tagMap, "doc"), min |-> -1,
             opt |-> "opt" \in DOMAIN tagMap, parser |-> p],
            ParseInt(Get(tagMap, "min")))

\* parseTag, the positional branch.
parseTagFormal(c, sf, k, tagMap, p, name) ==
    IF Get(tagMap, "opt") # "" THEN Left(Errorf("\"opt\" should not have a value", sf.Name), c)
    ELSE parseTagMin(c, sf, tagMap,
            [name |-> IF name = "" THEN ToUpper(sf.Name) ELSE name,
             field |-> k, usage |-> Get(tagMap, "doc"), min |-> -1,
             opt |-> "opt" \in DOMAIN tagMap, parser |-> p],
            ParseInt(Get(tagMap, "min")))

\* parseTag, once the parser p is built.
parseTagParser(c, sf, k, tagMap, p) ==
    IF ~p.ok THEN Left(Errorf(p.err, sf.Name), c)
    ELSE IF "flag" \in DOMAIN tagMap
        THEN parseTagFlag(c, sf, k, tagMap, p,
                          IF tagMap["flag"] = "" THEN ToLower(sf.Name) ELSE tagMap["flag"])
    ELSE parseTagFormal(c, sf, k, tagMap, p, Get(tagMap, "name"))

\* prepareOneof(tagMap): the choices, trimmed, and the error ("" for nil).
RECURSIVE trimAll(_)
trimAll(cs) == IF cs = <<>> THEN <<>> ELSE <<TrimSpace(Head(cs))>> \o trimAll(Tail(cs))

prepareOneof(tagMap) ==
    IF "oneof" \notin DOMAIN tagMap THEN [choices |-> NoChoices, err |-> ""]
    ELSE IF TrimSpace(tagMap["oneof"]) = ""
        THEN [choices |-> NoChoices, err |-> "oneof value cannot be empty"]
    ELSE [choices |-> Choices(trimAll(Split(tagMap["oneof"], "|"))), err |-> ""]

\* parseTag, once prepareOneof returned po.
parseTagOneof(c, sf, k, tagMap, po) ==
    IF po.err # "" THEN Left(Errorf(po.err, sf.Name), c)
    ELSE parseTagParser(c, sf, k, tagMap,
                        buildParser(sf.type, po.choices, "flag" \in DOMAIN tagMap))

\* parseTag, once the tag is a map.
parseTagMap(c, sf, k, tagMap) ==
    IF "" \in DOMAIN tagMap THEN Left(Errorf("empty key", sf.Name), c)
    ELSE IF \E key \in DOMAIN tagMap : key \notin validKeys
        THEN Left(Errorf("invalid key", sf.Name), c)
    ELSE IF "flag" \in DOMAIN tagMap /\ Get(tagMap, "name") # ""
        THEN Left(Errorf("either 'flag' or 'name', but not both", sf.Name), c)
    ELSE IF "opt" \in DOMAIN tagMap /\ "flag" \in DOMAIN tagMap
        THEN Left(Errorf("either 'flag' or 'opt', but not both", sf.Name), c)
    ELSE parseTagOneof(c, sf, k, tagMap, prepareOneof(tagMap))

\* parseTag that skips a field with an empty tag.
parseTagSkipEmpty(c, sf, k) ==
    IF sf.tag # "" /\ ~sf.exported
    THEN Left(Errorf("cli tag on unexported field", sf.Name), c)
    ELSE IF ~sf.exported \/ sf.tag = "" THEN Left(Nil, c)
    ELSE parseTagMap(c, sf, k, tagToMap(sf.tag))

\* c.parseTag(tag, sf, field) for field k of the struct of c.
parseTag(c, sf, k) ==
    IF sf.tag # "" /\ ~sf.exported
    THEN Left(Errorf("cli tag on unexported field", sf.Name), c)
    ELSE IF ~sf.exported THEN Left(Nil, c)
    ELSE parseTagMap(c, sf, k, tagToMap(sf.tag))

\* reflect.StructTag.Get(key) on a tag without backslashes: the tag is a list of
\* name:"value" pairs with spaces between them, and the scan gives up at the
\* first thing that is not of this form.  i counts the characters scanned.
RECURSIVE nameLen(_, _)
nameLen(tag, i) ==
    IF i < Len(tag) /\ SubSeq(tag, i + 1, i + 1) \notin {" ", "\t", ":", "\""}
    THEN nameLen(tag, i + 1)
    ELSE i

RECURSIVE quoteEnd(_, _)
quoteEnd(tag, i) ==
    IF i < Len(tag) /\ SubSeq(tag, i + 1, i + 1) # "\"" THEN quoteEnd(tag, i + 1) ELSE i

RECURSIVE TagGet(_, _)
\* rest starts with the quote that opens the value of name, and i is the place of
\* the quote that closes it, counted from 0.
tagValue(key, name, rest, i) ==
    IF i >= Len(rest) THEN ""
    ELSE IF key = name THEN SubSeq(rest, 2, i)
    ELSE TagGet(SubSeq(rest, i + 2, Len(rest)), key)

tagName(tag, key, i) ==
    IF i = 0 \/ i + 1 >= Len(tag) \/ SubSeq(tag, i + 1, i + 1) # ":"
             \/ SubSeq(tag, i + 2, i + 2) # "\""
    THEN ""
    ELSE tagValue(key, SubSeq(tag, 1, i), SubSeq(tag, i + 2, Len(tag)),
                  quoteEnd(SubSeq(tag, i + 2, Len(tag)), 1))

TagGet(tag, key) ==
    IF tag # "" /\ Head(tag) = " " THEN TagGet(Tail(tag), key)
    ELSE IF tag = "" THEN ""
    ELSE tagName(tag, key, nameLen(tag, 0))

\* The tag processFields gives to parseTag: the value of the cli key, or the
\* whole struct tag when that is empty; value is f.Tag.Get("cli").
cliTag(tag, value) == IF value = "" THEN tag ELSE value

\* The first loop of processFields, from field k on; r is what parseTag returned
\* for field k.
RECURSIVE parseFields(_, _)
parseFieldsNext(r, k) == IF r.err # Nil THEN r ELSE parseFields(r.c, k + 1)

parseFields(c, k) ==
    IF k > Len(c.Struct.fields) THEN Left(Nil, c)
    ELSE parseFieldsNext(
            parseTag(c, [c.Struct.fields[k] EXCEPT !.tag = cliTag(@, TagGet(@, "cli"))], k), k)

\* The second loop of processFields: a slice is the last formal.
sliceIsLast(r) ==
    IF r.err # Nil THEN r
    ELSE IF \E i \in 1..Len(r.c.formals) :
                r.c.formals[i].min >= 0 /\ i # Len(r.c.formals)
        THEN Left(Errorf("is a slice but not the last arg", ""), r.c)
    ELSE r

processFields(c) ==
    IF c.Struct.name = "nil" THEN Left(Nil, c) ELSE sliceIsLast(parseFields(c, 1))

\* A findSub that finds nothing.
findSubNone(cs, c, name) == 0

\* c.findSub(name) in the tree cs: the first sub-command of c with that name, 0 for nil.
findSub(cs, c, name) ==
    IF \A i \in 1..Len(cs[c].subs) : cs[cs[c].subs[i]].Name # name THEN 0
    ELSE cs[c].subs[CHOOSE i \in 1..Len(cs[c].subs) :
                        /\ cs[cs[c].subs[i]].Name = name
                        /\ \A j \in 1..(i - 1) : cs[cs[c].subs[j]].Name # name]

\* initFlags(c): a fresh, empty flag set.
initFlags(c) == [c EXCEPT !.flags = <<>>, !.isCommandLine = FALSE]

\* registerSub without the test for a sub-command that is not Runnable.
registerSubAny(cs, c, sub, pf) ==
    IF pf.err # Nil THEN [err |-> pf.err, cmds |-> cs]
    ELSE [err |-> Nil,
          cmds |-> Append([cs EXCEPT ![c].subs = Append(@, Len(cs) + 1)],
                          [pf.c EXCEPT !.super = c])]

\* register, once sub.processFields() returned pf.
registerSub(cs, c, sub, pf) ==
    IF pf.err # Nil THEN [err |-> pf.err, cmds |-> cs]
    ELSE IF ~Runnable(sub.Struct) /\ Len(cs[c].formals) > 0
        THEN [err |-> Errorf("has positional arguments but is not runnable", sub.Name),
              cmds |-> cs]
    ELSE [err |-> Nil,
          cmds |-> Append([cs EXCEPT ![c].subs = Append(@, Len(cs) + 1)],
                          [pf.c EXCEPT !.super = c])]

\* c.register(sub) in the tree cs: the error, and the tree as register leaves it.
\* The new Command is cs[Len(cs) + 1].
register(cs, c, sub) ==
    IF sub.Name = ""
    THEN [err |-> Errorf("sub-command has no name", cs[c].Name), cmds |-> cs]
    ELSE IF findSub(cs, c, sub.Name) # 0
        THEN [err |-> Errorf("duplicate sub-command", sub.Name), cmds |-> cs]
    ELSE registerSub(cs, c, sub, processFields(initFlags(sub)))

----------------------------------------------------------------------------
(* The flag facility: FlagSet.Parse of the standard library's flag, as     *)
(* Command.Run calls it, with the flags that parseTag defined.             *)

ErrHelp == "flag: help requested"

\* The Set of the flag's Value, once the parser returned r: the closure given to
\* c.flags.Func sets the field; oneof.Set keeps the string in the oneof itself
\* and leaves the field of the struct as it is.
flagValueSet(fl, flds, r) ==
    IF ~r.ok THEN [err |-> r.err, flds |-> flds]
    ELSE IF fl.value = "oneof" THEN [err |-> "", flds |-> flds]
    ELSE [err |-> "", flds |-> [flds EXCEPT ![fl.field] = r.v]]

flagSet(fl, value, flds) == flagValueSet(fl, flds, parser(fl.parser, value))

\* What Parse returns and leaves: the error ("" for nil), the flag it is about,
\* Args(), and the fields of the struct.
Parsed(err, name, rest, flds) == [err |-> err, name |-> name, rest |-> rest, flds |-> flds]

RECURSIVE FlagSetParse(_, _, _)

\* parseOne, once the flag's Set returned set.
parseOneSet(c, args, flds, name, set) ==
    IF set.err # "" THEN Parsed("invalid value", name, Tail(Tail(args)), flds)
    ELSE FlagSetParse(c, Tail(Tail(args)), set.flds)

\* parseOne, for the defined flag fl: a boolean flag takes no value, any other
\* flag takes the next argument.
parseOneFlag(c, args, flds, name, fl) ==
    IF fl.isBool THEN FlagSetParse(c, Tail(args), [flds EXCEPT ![fl.field] = TRUE])
    ELSE IF Len(args) < 2 THEN Parsed("flag needs an argument", name, Tail(args), flds)
    ELSE parseOneSet(c, args, flds, name, flagSet(fl, args[2], flds))

\* parseOne, once the flag's name is known: -h and -help ask for help unless defined.
parseOneName(c, args, flds, name) ==
    IF \A i \in 1..Len(c.flags) : c.flags[i].name # name
    THEN (IF name \in {"help", "h"} THEN Parsed(ErrHelp, name, Tail(args), flds)
          ELSE Parsed("flag provided but not defined", name, Tail(args), flds))
    ELSE parseOneFlag(c, args, flds, name,
                      c.flags[CHOOSE i \in 1..Len(c.flags) : c.flags[i].name = name])

\* parseOne, for an argument cs that starts with numMinuses minus signs: "--" ends
\* the flags.
parseOneMinus(c, args, flds, cs, numMinuses) ==
    IF numMinuses = 2 /\ Len(cs) = 2 THEN Parsed("", "", Tail(args), flds)
    ELSE IF Len(cs) = numMinuses \/ cs[numMinuses + 1] \in {"-", "="}
        THEN Parsed("bad flag syntax", "", Tail(args), flds)
    ELSE parseOneName(c, args, flds, SubSeq(Head(args), numMinuses + 1, Len(cs)))

\* parseOne, for the first argument, cs: the flags end at an argument that is
\* not a flag.
parseOne(c, args, flds, cs) ==
    IF Len(cs) < 2 \/ cs[1] # "-" THEN Parsed("", "", args, flds)
    ELSE parseOneMinus(c, args, flds, cs, IF cs[2] = "-" THEN 2 ELSE 1)

\* Parse(args) on the flag set of command c, whose struct's fields are flds.
FlagSetParse(c, args, flds) ==
    IF args = <<>> THEN Parsed("", "", args, flds)
    ELSE parseOne(c, args, flds, CharsOf(Head(args)))

----------------------------------------------------------------------------
(* Execution (execution.go).                                               *)

\* What bindFormals returns and leaves: the error, and the fields of the struct.
Bound(err, flds) == [err |-> err, flds |-> flds]

\* The "rest" branch of bindFormals: the loop over args[j:] (j counts from 0),
\* then f.field.Set(slice).
RECURSIVE restLoop(_, _, _, _, _)
restLoopNext(f, args, j, slice, flds, r) ==
    IF ~r.ok THEN Bound(Errorf(r.err, f.name), flds)
    ELSE restLoop(f, args, j + 1, Append(slice, r.v), flds)

restLoop(f, args, j, slice, flds) ==
    IF j >= Len(args) THEN Bound(Nil, [flds EXCEPT ![f.field] = [nil |-> FALSE, s |-> slice]])
    ELSE restLoopNext(f, args, j, slice, flds, parser(f.parser, args[j + 1]))

\* bindRest without the test of the number of arguments left.
bindRestAnyNumber(c, f, args, i, flds, nArgsLeft) == restLoop(f, args, i, <<>>, flds)

bindRest(c, f, args, i, flds, nArgsLeft) ==
    IF nArgsLeft < f.min
    THEN Bound([UsageError(c, IF f.min # 1 THEN "need at least %d arguments, got %d"
                              ELSE "need at least %d argument, got %d", f.name)
                EXCEPT !.n = f.min, !.got = nArgsLeft],
               flds)
    ELSE restLoop(f, args, i, <<>>, flds)

RECURSIVE bindLoop(_, _, _, _, _, _)

\* bindArg without f.field.Set.
bindArgNotSet(c, formals, args, i, a, flds, f, r) ==
    IF ~r.ok THEN Bound(Errorf(r.err, f.name), flds)
    ELSE bindLoop(c, formals, args, i + 1, a + 1, flds)

\* The last branch of the loop of bindFormals: the argument parsed to r.
bindArg(c, formals, args, i, a, flds, f, r) ==
    IF ~r.ok THEN Bound(Errorf(r.err, f.name), flds)
    ELSE bindLoop(c, formals, args, i + 1, a + 1, [flds EXCEPT ![f.field] = r.v])

\* bindFormal that does not look at f.opt.
bindFormalNoOpt(c, formals, args, i, a, flds, f) ==
    IF f.min >= 0 THEN bindRest(c, f, args, i, flds, Len(args) - i)
    ELSE IF i >= Len(args) THEN Bound(UsageError(c, "too few arguments", ""), flds)
    ELSE bindArg(c, formals, args, i, a, flds, f, parser(f.parser, args[a + 1]))

\* bindFormal that clears the field of the optional formal it stops at.
bindFormalOptCleared(c, formals, args, i, a, flds, f) ==
    IF f.min >= 0 THEN bindRest(c, f, args, i, flds, Len(args) - i)
    ELSE IF i >= Len(args)
        THEN (IF f.opt THEN Bound(Nil, [flds EXCEPT ![f.field] = IF f.parser.kind = "int" THEN 0 ELSE ""])
              ELSE Bound(UsageError(c, "too few arguments", ""), flds))
    ELSE bindArg(c, formals, args, i, a, flds, f, parser(f.parser, args[a + 1]))

\* bindFormal for which a formal is optional when it or one before it is marked opt.
bindFormalOptTail(c, formals, args, i, a, flds, f) ==
    IF f.min >= 0 THEN bindRest(c, f, args, i, flds, Len(args) - i)
    ELSE IF i >= Len(args)
        THEN (IF \E j \in 1..(i + 1) : formals[j].opt THEN Bound(Nil, flds)
              ELSE Bound(UsageError(c, "too few arguments", ""), flds))
    ELSE bindArg(c, formals, args, i, a, flds, f, parser(f.parser, args[a + 1]))

\* bindFormal that stops successfully wherever the arguments run out.
bindFormalNoTooFew(c, formals, args, i, a, flds, f) ==
    IF f.min >= 0 THEN bindRest(c, f, args, i, flds, Len(args) - i)
    ELSE IF i >= Len(args) THEN Bound(Nil, flds)
    ELSE bindArg(c, formals, args, i, a, flds, f, parser(f.parser, args[a + 1]))

\* The body of the loop of bindFormals, for formal f.
bindFormal(c, formals, args, i, a, flds, f) ==
    IF f.min >= 0 THEN bindRest(c, f, args, i, flds, Len(args) - i)
    ELSE IF i >= Len(args)
        THEN (IF f.opt THEN Bound(Nil, flds)
              ELSE Bound(UsageError(c, "too few arguments", ""), flds))
    ELSE bindArg(c, formals, args, i, a, flds, f, parser(f.parser, args[a + 1]))

\* The loop of bindFormals from formal i on, with a the index into args (both
\* count from 0, as in the code), and what follows the loop.
bindLoop(c, formals, args, i, a, flds) ==
    IF i >= Len(formals)
    THEN (IF a < Len(args) THEN Bound(UsageError(c, "too many arguments", ""), flds)
          ELSE Bound(Nil, flds))
    ELSE bindFormal(c, formals, args, i, a, flds, formals[i + 1])

\* c.bindFormals(formals, args), with flds the fields the formals point to.
bindFormals(c, formals, args, flds) == bindLoop(c, formals, args, 0, 0, flds)

\* c.validate(): a Command is Runnable or has sub-commands.
validate(cs, c) ==
    IF ~Runnable(cs[c].Struct) /\ Len(cs[c].subs) = 0
    THEN Errorf("is not a Command and has no sub-commands", cs[c].Name)
    ELSE Nil

\* validateAll(): the error of the first Command of the tree that is not valid.
validateAll(cs) ==
    LET bad == {c \in 1..Len(cs) : validate(cs, c) # Nil}
    IN  IF bad = {} THEN Nil ELSE validate(cs, CHOOSE c \in bad : \A d \in bad : c <= d)

\* What the methods of the structs return in one call of Run: env.run is the
\* result of Runnable.Run, env.before the result of Before.
\* Run is not called when Before returns an error, so its result is left out then.
Results == {"nil", "error", "usage"}
Envs == {e \in [run : Results, before : Results] : e.before # "nil" => e.run = "nil"}

\* The error a struct's method returns: nil, an error that is not a
\* UsageError, or NewUsageError(err).
methodErr(res) ==
    CASE res = "nil" -> Nil
      [] res = "error" -> Errorf("context canceled", "")
      [] res = "usage" -> NewUsageError("usage")

\* A call that Run makes: which, on which Command, with which arguments, and the
\* error it returned where Run looks at it.
Event(ev, c, args, err) == [ev |-> ev, cmd |-> c, args |-> args, err |-> err]

\* What Run returns and leaves: the error, the fields of all structs, the calls
\* made, in order, and the code of os.Exit when the flag set ended the process
\* (-1 when it did not).
Ran(err, F, trace, exit) == [err |-> err, fields |-> F, trace |-> trace, exit |-> exit]

\* A deferred function that gives c to every UsageError, with a command or not.
deferredAlways(c, r) ==
    IF AsUsageError(r.err) THEN [r EXCEPT !.err.cmd = c] ELSE r

\* The deferred function of Run: a UsageError with no command gets c.
deferred(c, r) ==
    IF AsUsageError(r.err) /\ r.err.cmd = 0 THEN [r EXCEPT !.err.cmd = c] ELSE r

RECURSIVE Run(_, _, _, _, _, _, _)

\* runBound that returns nil for a struct that is not Runnable.
runBoundGroupNil(cs, c, F, env, trace, b) ==
    IF b.err # Nil THEN Ran(b.err, [F EXCEPT ![c] = b.flds], trace, -1)
    ELSE IF Runnable(cs[c].Struct)
        THEN Ran(methodErr(env.run), [F EXCEPT ![c] = b.flds],
                 Append(trace, Event("Runnable.Run", c, <<>>, methodErr(env.run))), -1)
    ELSE Ran(Nil, [F EXCEPT ![c] = b.flds], trace, -1)

\* runBound that does not look at the error of bindFormals.
runBoundAnyway(cs, c, F, env, trace, b) ==
    IF Runnable(cs[c].Struct)
    THEN Ran(methodErr(env.run), [F EXCEPT ![c] = b.flds],
             Append(trace, Event("Runnable.Run", c, <<>>, methodErr(env.run))), -1)
    ELSE Ran(UsageError(c, "missing sub-command", ""), [F EXCEPT ![c] = b.flds], trace, -1)

\* Run, once bindFormals returned b: call the struct's Run, if it has one.
runBound(cs, c, F, env, trace, b) ==
    IF b.err # Nil THEN Ran(b.err, [F EXCEPT ![c] = b.flds], trace, -1)
    ELSE IF Runnable(cs[c].Struct)
        THEN Ran(methodErr(env.run), [F EXCEPT ![c] = b.flds],
                 Append(trace, Event("Runnable.Run", c, <<>>, methodErr(env.run))), -1)
    ELSE Ran(UsageError(c, "missing sub-command", ""), [F EXCEPT ![c] = b.flds], trace, -1)

\* runSub with the precedence the other way round: a Command with positional
\* arguments binds them, and looks for a sub-command only when it has none.
runSubAfterFormals(cs, c, F, eh, env, trace, rest, subc) ==
    IF Len(cs[c].formals) > 0
    THEN runBound(cs, c, F, env, Append(trace, Event("bindFormals", c, rest, Nil)),
                  bindFormals(c, cs[c].formals, rest, F[c]))
    ELSE IF subc # 0 THEN Run(cs, subc, Tail(rest), F, eh, env, trace)
    ELSE IF Len(cs[c].subs) > 0
        THEN Ran(UsageError(c, "unknown command", rest[1]), F, trace, -1)
    ELSE runBound(cs, c, F, env, Append(trace, Event("bindFormals", c, rest, Nil)),
                  bindFormals(c, cs[c].formals, rest, F[c]))

\* runSub without the error for an unknown command.
runSubNoUnknown(cs, c, F, eh, env, trace, rest, subc) ==
    IF subc # 0 THEN Run(cs, subc, Tail(rest), F, eh, env, trace)
    ELSE runBound(cs, c, F, env, Append(trace, Event("bindFormals", c, rest, Nil)),
                  bindFormals(c, cs[c].formals, rest, F[c]))

\* Run, with arguments left and subc what findSub returned for the first.
runSub(cs, c, F, eh, env, trace, rest, subc) ==
    IF subc # 0 THEN Run(cs, subc, Tail(rest), F, eh, env, trace)
    ELSE IF Len(cs[c].subs) > 0 /\ Len(cs[c].formals) = 0
        THEN Ran(UsageError(c, "unknown command", rest[1]), F, trace, -1)
    ELSE runBound(cs, c, F, env, Append(trace, Event("bindFormals", c, rest, Nil)),
                  bindFormals(c, cs[c].formals, rest, F[c]))

\* Run, after the Before hook: rest is c.flags.Args().
runArgs(cs, c, F, eh, env, trace, rest) ==
    IF Len(rest) > 0 THEN runSub(cs, c, F, eh, env, trace, rest, findSub(cs, c, rest[1]))
    ELSE runBound(cs, c, F, env, Append(trace, Event("bindFormals", c, rest, Nil)),
                  bindFormals(c, cs[c].formals, rest, F[c]))

\* runBefore that goes on after the Before hook returned an error.
runBeforeGoesOn(cs, c, F, eh, env, trace, rest) ==
    IF ~cs[c].Struct.before THEN runArgs(cs, c, F, eh, env, trace, rest)
    ELSE runArgs(cs, c, F, eh, env,
                 Append(trace, Event("Before", c, <<>>, methodErr(env.before))), rest)

\* Run, once the flags are parsed: the Before hook, if the struct has one.
runBefore(cs, c, F, eh, env, trace, rest) ==
    IF ~cs[c].Struct.before THEN runArgs(cs, c, F, eh, env, trace, rest)
    ELSE IF methodErr(env.before) # Nil
        THEN Ran(methodErr(env.before), F,
                 Append(trace, Event("Before", c, <<>>, methodErr(env.before))), -1)
    ELSE runArgs(cs, c, F, eh, env, Append(trace, Event("Before", c, <<>>, Nil)), rest)

\* runParsed that returns flag.ErrHelp as it is, and wraps the other errors.
runParsedHelpBare(cs, c, F, eh, env, trace, fp) ==
    IF fp.err # "" /\ cs[c].isCommandLine /\ eh = "ExitOnError"
    THEN Ran(Nil, [F EXCEPT ![c] = fp.flds], trace, IF fp.err = ErrHelp THEN 0 ELSE 2)
    ELSE IF fp.err = ErrHelp
        THEN Ran(Errorf(fp.err, fp.name), [F EXCEPT ![c] = fp.flds], trace, -1)
    ELSE IF fp.err # ""
        THEN Ran(UsageError(c, fp.err, fp.name), [F EXCEPT ![c] = fp.flds], trace, -1)
    ELSE runBefore(cs, c, [F EXCEPT ![c] = fp.flds], eh, env, trace, fp.rest)

\* Run, once c.flags.Parse(args) returned fp.  flag.CommandLine ends the process
\* on an error unless its error handling was set to ContinueOnError.
runParsed(cs, c, F, eh, env, trace, fp) ==
    IF fp.err # "" /\ cs[c].isCommandLine /\ eh = "ExitOnError"
    THEN Ran(Nil, [F EXCEPT ![c] = fp.flds], trace, IF fp.err = ErrHelp THEN 0 ELSE 2)
    ELSE IF fp.err # ""
        THEN Ran(UsageError(c, fp.err, fp.name), [F EXCEPT ![c] = fp.flds], trace, -1)
    ELSE runBefore(cs, c, [F EXCEPT ![c] = fp.flds], eh, env, trace, fp.rest)

\* c.Run(ctx, args) in the tree cs, with F the fields of all structs, eh the error
\* handling of flag.CommandLine and env what the structs' methods return.
Run(cs, c, args, F, eh, env, trace) ==
    deferred(c,
        IF validate(cs, c) # Nil
        THEN Ran(validate(cs, c), F, Append(trace, Event("Run", c, args, Nil)), -1)
        ELSE runParsed(cs, c, F, eh, env, Append(trace, Event("Run", c, args, Nil)),
                       FlagSetParse(cs[c], args, F[c])))

\* An exit code that does not ask whether help was requested.
exitCodeOfType(err) ==
    IF err # Nil THEN (IF AsUsageError(err) THEN 2 ELSE 1) ELSE 0

\* The exit code mainWithArgs makes of the error Run returned.
exitCode(err) ==
    IF err # Nil
    THEN (IF IsErrHelp(err) THEN 0
          ELSE IF AsUsageError(err) THEN 2
          ELSE 1)
    ELSE 0

----------------------------------------------------------------------------
(* The state machine: a program builds its tree with Top and Register,     *)
(* then calls mainWithArgs or Run on the top command any number of times.  *)

\* The names given to sub-commands, and the words of the argument vectors.
Names == {"", "a", "b"}
Tokens == {"a", "b", "3", "-f", "-h"}

\* The sequences over S of length at most n.
SeqsUpTo(S, n) == UNION {[1..k -> S] : k \in 0..n}

\* What a call returned: m is the map that tagToMap returns.
NoRet ==
    [call |-> "", on |-> 0, name |-> "", st |-> "", args |-> <<>>,
     err |-> Nil, exit |-> -1, panicked |-> FALSE, trace |-> <<>>, m |-> EmptyMap]

Init ==
    /\ cmds = <<>>
    /\ fields = <<>>
    /\ errorHandling = "ExitOnError"
    /\ pc = "build"
    /\ ret = NoRet

\* Top(&Command{Struct: st}), or Top(nil) for st = "nil": the top command uses
\* flag.CommandLine, and the error of processFields is not looked at.
Top(st) ==
    /\ pc = "build"
    /\ cmds = <<>>
    /\ cmds' = << processFields([NewCommand("prog", st) EXCEPT !.isCommandLine = TRUE]).c >>
    /\ fields' = << ZeroStruct(st) >>
    /\ UNCHANGED <<errorHandling, pc, ret>>

\* register returned r.
registerReturn(c, name, st, r) ==
    /\ cmds' = r.cmds
    /\ fields' = IF r.err = Nil THEN Append(fields, ZeroStruct(st)) ELSE fields
    /\ ret' = [NoRet EXCEPT !.call = "register", !.on = c, !.name = name,
                            !.st = st.name, !.err = r.err]

\* cmds[c].register(&Command{Name: name, Struct: st})
Register(c, name, st) ==
    /\ pc = "build"
    /\ c \in 1..Len(cmds)
    /\ Len(cmds) < MaxNodes
    /\ registerReturn(c, name, st, register(cmds, c, NewCommand(name, st)))
    /\ pc' = "returned"
    /\ UNCHANGED errorHandling

\* mainWithArgs, once Run returned r.
mainReturn(args, r) ==
    /\ fields' = r.fields
    /\ ret' = [NoRet EXCEPT !.call = "mainWithArgs", !.on = 1, !.args = args,
                            !.err = r.err, !.exit = exitCode(r.err), !.trace = r.trace]

\* cmds[1].mainWithArgs(ctx, args): panics when the tree is not valid.
Main(args, env) ==
    /\ pc \in {"build", "idle"}
    /\ cmds # <<>>
    /\ IF validateAll(cmds) # Nil
       THEN /\ ret' = [NoRet EXCEPT !.call = "mainWithArgs", !.on = 1, !.args = args,
                                    !.err = validateAll(cmds), !.panicked = TRUE]
            /\ pc' = "exited"
            /\ UNCHANGED <<fields, errorHandling>>
       ELSE /\ errorHandling' = "ContinueOnError"
            /\ mainReturn(args, Run(cmds, 1, args, fields, "ContinueOnError", env, <<>>))
            /\ pc' = "returned"
    /\ UNCHANGED cmds

\* Run, called by the program: what it returned, or that the process ended.
runReturn(args, r) ==
    /\ fields' = r.fields
    /\ ret' = [NoRet EXCEPT !.call = "Run", !.on = 1, !.args = args,
                            !.err = r.err, !.exit = r.exit, !.trace = r.trace]
    /\ pc' = IF r.exit # -1 THEN "exited" ELSE "returned"

\* A Run that takes the sub-commands of the top command off it.
CallRunDetaching(args, env) ==
    /\ pc \in {"build", "idle"}
    /\ cmds # <<>>
    /\ runReturn(args, Run(cmds, 1, args, fields, errorHandling, env, <<>>))
    /\ cmds' = [cmds EXCEPT ![1].subs = <<>>]
    /\ UNCHANGED errorHandling

\* cmds[1].Run(ctx, args), called by the program itself.
CallRun(args, env) ==
    /\ pc \in {"build", "idle"}
    /\ cmds # <<>>
    /\ runReturn(args, Run(cmds, 1, args, fields, errorHandling, env, <<>>))
    /\ UNCHANGED <<cmds, errorHandling>>

\* The caller is done with what the call returned.
Drop ==
    /\ pc = "returned"
    /\ pc' = IF ret.call = "register" THEN "build" ELSE "idle"
    /\ ret' = NoRet
    /\ UNCHANGED <<cmds, fields, errorHandling>>

\* c.bindFormals returned b.
bindReturn(args, b) ==
    /\ fields' = [fields EXCEPT ![1] = b.flds]
    /\ ret' = [NoRet EXCEPT !.call = "bindFormals", !.on = 1, !.args = args, !.err = b.err]
    /\ pc' = "returned"

\* cmds[1].bindFormals(cmds[1].formals, args)
BindFormals(args) ==
    /\ pc = "idle"
    /\ cmds # <<>>
    /\ bindReturn(args, bindFormals(1, cmds[1].formals, args, fields[1]))
    /\ UNCHANGED <<cmds, errorHandling>>

NextReg ==
    \/ \E st \in StructNames : Top(Structs[st])
    \/ \E c \in 1..MaxNodes, name \in Names, st \in StructNames : Register(c, name, Structs[st])
    \/ Drop

\* Registration alone.
SpecReg == Init /\ [][NextReg]_vars

Next ==
    \/ NextReg
    \/ \E args \in SeqsUpTo(Tokens, MaxArgs), env \in Envs : CallRun(args, env)

\* A program that calls Run.
Spec == Init /\ [][Next]_vars

NextMain ==
    \/ NextReg
    \/ \E args \in SeqsUpTo(Tokens, MaxArgs), env \in Envs : Main(args, env)

\* A program that calls mainWithArgs.
SpecMain == Init /\ [][NextMain]_vars

\* The words of the argument vectors given to bindFormals.
BindTokens == {"a", "3"}

\* The top command of a struct with positional arguments, as Top makes it when
\* processFields finds nothing wrong with the struct.
InitBind ==
    /\ \E fds \in SeqsUpTo(ArgFields, MaxFormals) :
          /\ processFields(NewCommand("prog", ArgStruct(fds))).err = Nil
          /\ cmds = << processFields([NewCommand("prog", ArgStruct(fds))
                                         EXCEPT !.isCommandLine = TRUE]).c >>
          /\ fields = << ZeroStruct(ArgStruct(fds)) >>
    /\ errorHandling = "ExitOnError"
    /\ pc = "idle"
    /\ ret = NoRet

NextBind ==
    \/ \E args \in SeqsUpTo(BindTokens, MaxBindArgs) : BindFormals(args)
    \/ Drop

\* Binding alone: bindFormals called on the formals of one struct.
SpecBind == InitBind /\ [][NextBind]_vars

----------------------------------------------------------------------------
(* Dispatch (C1, C2).                                                      *)

\* The sub-commands of cmds[c] that are called name.
SubsNamed(c, name) ==
    {cmds[c].subs[i] : i \in {j \in 1..Len(cmds[c].subs) : cmds[cmds[c].subs[j]].Name = name}}

\* For the call of Run that is event i of the trace t: the event that follows
\* the parsing of the flags and the Before hook, and whether the hook let Run go on.
AfterHook(t, i) == IF cmds[t[i].cmd].Struct.before THEN i + 2 ELSE i + 1
HookPassed(t, i) ==
    cmds[t[i].cmd].Struct.before =>
        Len(t) > i /\ t[i + 1].ev = "Before" /\ t[i + 1].cmd = t[i].cmd /\ t[i + 1].err = Nil

\* Run on c handed the arguments on to the sub-command named by rest[1], and
\* neither bound the positional arguments of c nor called its Run method.
Delegated(t, n, c, rest) ==
    /\ Len(t) >= n
    /\ t[n].ev = "Run"
    /\ t[n].cmd \in SubsNamed(c, rest[1])
    /\ t[n].args = Tail(rest)
    /\ \A k \in 1..Len(t) : t[k].cmd = c => t[k].ev \in {"Run", "Before"}

\* Run on c bound all of rest to the positional arguments of c, the first of
\* them to the first.
BoundFirst(t, n, c, rest, f, r) ==
    /\ Len(t) >= n
    /\ t[n] = Event("bindFormals", c, rest, Nil)
    /\ (f.min < 0 /\ r.ok) => fields[c][f.field] = r.v

\* What C1 says of the call of Run on c that is event i of t, whose flags
\* parsed to fp.
PrecedenceAt(t, i, c, fp) ==
    (validate(cmds, c) = Nil /\ fp.err = "" /\ fp.rest # <<>> /\ HookPassed(t, i)) =>
        /\ SubsNamed(c, fp.rest[1]) # {} => Delegated(t, AfterHook(t, i), c, fp.rest)
        /\ (SubsNamed(c, fp.rest[1]) = {} /\ cmds[c].formals # <<>>) =>
              BoundFirst(t, AfterHook(t, i), c, fp.rest, cmds[c].formals[1],
                         parser(cmds[c].formals[1].parser, fp.rest[1]))

\* C1: in every call of Run on a Command (the top one, or one reached by
\* dispatch) whose flags parse and whose Before hook, if it has one, returns nil:
\* when the first argument after the flags is the name of a sub-command, the
\* next call is Run on that sub-command with the arguments after the name, and
\* the Command's own positional arguments are not bound and its Run method is not
\* called, whether or not it has positional arguments; when the first argument
\* names no sub-command and the Command has positional arguments, all the
\* arguments after the flags go to bindFormals, which sets the first field.
C1_SubCommandPrecedence ==
    ret.call = "Run" =>
        \A i \in 1..Len(ret.trace) :
            ret.trace[i].ev = "Run" =>
                PrecedenceAt(ret.trace, i, ret.trace[i].cmd,
                             FlagSetParse(cmds[ret.trace[i].cmd], ret.trace[i].args,
                                          fields[ret.trace[i].cmd]))

\* A call of Run that went through a Command with positional arguments to its
\* sub-command, where the argument that names no sub-command was bound.
C1_Witness ==
    /\ ret.call = "Run"
    /\ \E i \in 1..Len(ret.trace), n \in 1..Len(ret.trace) :
          /\ i < n
          /\ ret.trace[i].ev = "Run"
          /\ cmds[ret.trace[i].cmd].formals # <<>>
          /\ ret.trace[i].args # <<>>
          /\ Delegated(ret.trace, n, ret.trace[i].cmd, ret.trace[i].args)
    /\ \E k \in 1..Len(ret.trace) :
          /\ ret.trace[k].ev = "bindFormals"
          /\ ret.trace[k].args = <<"3">>
          /\ fields[ret.trace[k].cmd] = <<3>>

\* The messages of the errors of a bad flag and of a wrong number of arguments.
BadFlag ==
    {"flag provided but not defined", "bad flag syntax", "flag needs an argument",
     "invalid value"}
WrongNumber ==
    {"too few arguments", "too many arguments", "need at least %d argument, got %d",
     "need at least %d arguments, got %d"}

\* The last call Run made was the Run method of a struct, which returned an
\* error that is not a UsageError.
BehaviourFailed ==
    /\ ret.trace # <<>>
    /\ ret.trace[Len(ret.trace)].ev = "Runnable.Run"
    /\ ret.trace[Len(ret.trace)].err.typ = "error"

\* C2: whenever mainWithArgs returns, for any tree and arguments, the exit code
\* is 0 when Run returned nil or help was requested (at the top command or at a
\* sub-command on the way), 2 when Run ended with a bad flag, a wrong number of
\* arguments, an unknown command or a missing sub-command, and 1 when the Run
\* method of the struct returned an error that is not a UsageError.
C2_ExitCode ==
    (ret.call = "mainWithArgs" /\ ~ret.panicked) =>
        /\ ret.err = Nil => ret.exit = 0
        /\ ret.err.msg = ErrHelp => ret.exit = 0
        /\ ret.err.msg \in BadFlag \cup WrongNumber
                              \cup {"unknown command", "missing sub-command"}
              => ret.exit = 2
        /\ BehaviourFailed => ret.exit = 1

\* mainWithArgs returned 0 because help was asked of a sub-command.
C2_Witness ==
    /\ ret.call = "mainWithArgs"
    /\ ~ret.panicked
    /\ ret.err.msg = ErrHelp
    /\ ret.err.cmd > 1
    /\ Len(ret.trace) >= 2
    /\ ret.exit = 0

----------------------------------------------------------------------------
(* Registration (C3, C4).                                                  *)

\* C3, as the specification states it: no Command has both positional arguments
\* and sub-commands, and register refuses every sub-command of a Command that
\* has positional arguments.
C3_Original ==
    /\ \A c \in 1..Len(cmds) : ~(cmds[c].formals # <<>> /\ cmds[c].subs # <<>>)
    /\ (ret.call = "register" /\ cmds[ret.on].formals # <<>>) => ret.err # Nil

\* C3, as the code has it: after any Top and Register calls, every sub-command
\* of a Command that has positional arguments is Runnable, and register refuses
\* a sub-command that is not Runnable when the Command has positional arguments.
C3_SubsOfFormalsRunnable ==
    /\ \A c \in 1..Len(cmds) :
          cmds[c].formals # <<>> =>
              \A i \in 1..Len(cmds[c].subs) : Runnable(cmds[cmds[c].subs[i]].Struct)
    /\ (ret.call = "register" /\ cmds[ret.on].formals # <<>> /\ ~Runnable(Structs[ret.st]))
          => ret.err # Nil

\* A Command with a positional argument took a Runnable sub-command and then
\* refused one that is not Runnable.
C3_Witness ==
    /\ ret.call = "register"
    /\ cmds[ret.on].formals # <<>>
    /\ cmds[ret.on].subs # <<>>
    /\ ~Runnable(Structs[ret.st])
    /\ ret.err.msg = "has positional arguments but is not runnable"

\* The names of the sub-commands of every Command differ.
SiblingNamesUnique ==
    \A c \in 1..Len(cmds) :
        \A i, j \in 1..Len(cmds[c].subs) :
            i # j => cmds[cmds[c].subs[i]].Name # cmds[cmds[c].subs[j]].Name

\* A call of register with the name of a sub-command the Command already has
\* returns an error and leaves the tree as it was.
DuplicateRefused ==
    (pc = "build" /\ ret'.call = "register" /\ SubsNamed(ret'.on, ret'.name) # {})
        => (ret'.err # Nil /\ cmds' = cmds)

\* C4: in every tree that Top and Register build, the sub-commands of a Command
\* have different names, and registering a sub-command under the name of an
\* existing sub-command of the same Command fails and adds nothing.
C4_SiblingNamesUnique == []SiblingNamesUnique /\ [][DuplicateRefused]_vars

\* register refused a second sub-command of the same name.
C4_Witness ==
    /\ ret.call = "register"
    /\ ret.name # ""
    /\ SubsNamed(ret.on, ret.name) # {}
    /\ ret.err.msg = "duplicate sub-command"

----------------------------------------------------------------------------
(* Binding of positional arguments (C5 .. C10).  F is a list of formals,   *)
(* args an argument vector; formals and arguments count from 1 here, so    *)
(* formal k is the code's formals[k-1].                                    *)

IsRequired(f) == f.min < 0 /\ ~f.opt
IsOptional(f) == f.min < 0 /\ f.opt
IsRest(f) == f.min >= 0

\* The shapes of the tests of bindFormals.
ReqOptRest1(F) ==
    Len(F) = 3 /\ IsRequired(F[1]) /\ IsOptional(F[2]) /\ IsRest(F[3]) /\ F[3].min = 1
ReqOptReq(F) ==
    Len(F) = 3 /\ IsRequired(F[1]) /\ IsOptional(F[2]) /\ IsRequired(F[3])

\* The first n arguments parse into the formals they belong to.
ArgsParse(F, args, n) ==
    \A j \in 1..n : (j <= Len(F) /\ IsRest(F[j])) \/ parser(F[j].parser, args[j]).ok

\* The arguments from n on parse into the rest formal f.
RestParses(f, args, n) == \A j \in n..Len(args) : parser(f.parser, args[j]).ok

\* The arguments run out at the formal k, which is not a rest formal: every
\* formal before it got an argument that parsed.
RunsOutAt(F, args, k) ==
    k = Len(args) + 1 /\ k <= Len(F) /\ ~IsRest(F[k]) /\ ArgsParse(F, args, Len(args))

\* The errors of bindFormals.
TooFew(err) == AsUsageError(err) /\ err.msg = "too few arguments"
TooMany(err) == AsUsageError(err) /\ err.msg = "too many arguments"
AtLeast(err, min, got) ==
    /\ AsUsageError(err)
    /\ err.msg = IF min = 1 THEN "need at least %d argument, got %d"
                 ELSE "need at least %d arguments, got %d"
    /\ err.n = min
    /\ err.got = got

\* A call of bindFormals returns in this step.
BindStep == pc = "idle" /\ ret'.call = "bindFormals"

RequiredArity(F, args, err, flds) ==
    ((\A k \in 1..Len(F) : IsRequired(F[k]))
            /\ ArgsParse(F, args, IF Len(args) < Len(F) THEN Len(args) ELSE Len(F))) =>
        /\ err = Nil <=> Len(args) = Len(F)
        /\ err = Nil => \A k \in 1..Len(F) : flds[F[k].field] = parser(F[k].parser, args[k]).v
        /\ Len(args) < Len(F) => TooFew(err)
        /\ Len(args) > Len(F) => TooMany(err)

\* C5: for formals none of which is optional or a rest formal, and arguments
\* that parse, bindFormals returns nil exactly when there are as many
\* arguments as formals, and then the field of formal k holds the parsed
\* argument k for every k; with fewer arguments it returns the UsageError "too
\* few arguments", with more the UsageError "too many arguments".
C5_RequiredArity ==
    ret.call = "bindFormals" => RequiredArity(cmds[1].formals, ret.args, ret.err, fields[1])

\* Two required formals, one of them an int, were bound to two arguments.
C5_Witness ==
    /\ ret.call = "bindFormals"
    /\ Len(cmds[1].formals) = 2
    /\ \A k \in 1..2 : IsRequired(cmds[1].formals[k])
    /\ cmds[1].formals[1].parser.kind = "string"
    /\ cmds[1].formals[2].parser.kind = "int"
    /\ ret.args = <<"a", "3">>
    /\ ret.err = Nil
    /\ fields[1] = <<"a", 3>>

\* The values of the arguments from n on, as the rest formal f parses them.
RestValues(f, args, n) ==
    [j \in 1..(Len(args) - n + 1) |-> parser(f.parser, args[n + j - 1]).v]

\* What C6 says of the formals F, whose last, formal n, is a rest formal that
\* the walk reaches.
RestBinding(F, n, args, err, flds) ==
    (IsRest(F[n]) /\ Len(args) >= n - 1 /\ ArgsParse(F, args, n - 1)) =>
        /\ Len(args) - (n - 1) < F[n].min => AtLeast(err, F[n].min, Len(args) - (n - 1))
        /\ (Len(args) - (n - 1) >= F[n].min /\ RestParses(F[n], args, n)) =>
              /\ err = Nil
              /\ flds[F[n].field] = [nil |-> FALSE, s |-> RestValues(F[n], args, n)]

\* C6: when the walk reaches the rest formal, the code's formals[i], with
\* fewer than min arguments left, bindFormals returns the UsageError "need at
\* least <min> argument(s), got <len(args)-i>"; otherwise, when the arguments
\* left parse, it returns nil and the field is the slice of the parsed
\* args[i], args[i+1], ..., in order (empty, not nil, when none is left).  With a
\* rest formal bindFormals never returns "too many arguments".  For [required,
\* optional, rest(min=1)], 2 arguments fail with "need at least 1 argument, got
\* 0", and 3 and 4 arguments leave 1 and 2 elements in the rest field.
C6_RestBinding ==
    (ret.call = "bindFormals" /\ cmds[1].formals # <<>>) =>
        /\ RestBinding(cmds[1].formals, Len(cmds[1].formals), ret.args, ret.err, fields[1])
        /\ IsRest(cmds[1].formals[Len(cmds[1].formals)]) => ~TooMany(ret.err)
        /\ (ReqOptRest1(cmds[1].formals) /\ Len(ret.args) >= 2
                /\ ArgsParse(cmds[1].formals, ret.args, 2)
                /\ RestParses(cmds[1].formals[3], ret.args, 3)) =>
              /\ Len(ret.args) = 2 => AtLeast(ret.err, 1, 0)
              /\ Len(ret.args) \in {3, 4} =>
                    ret.err = Nil /\ Len(fields[1][3].s) = Len(ret.args) - 2

\* [required, optional, rest(min=1)] was bound to four arguments.
C6_Witness ==
    /\ ret.call = "bindFormals"
    /\ ReqOptRest1(cmds[1].formals)
    /\ cmds[1].formals[3].parser.kind = "int"
    /\ ret.args = <<"a", "a", "3", "3">>
    /\ ret.err = Nil
    /\ fields[1][3] = [nil |-> FALSE, s |-> <<3, 3>>]

\* C7, as the specification states it: [required, optional, rest(min=1)] bound
\* to one argument fails with "need at least 1 argument".
C7_Original ==
    (ret.call = "bindFormals" /\ ReqOptRest1(cmds[1].formals) /\ Len(ret.args) = 1
            /\ ArgsParse(cmds[1].formals, ret.args, 1)) =>
        AtLeast(ret.err, 1, 0)

\* [required, optional, rest(min=1)] bound to one argument: nil, the required
\* field set, the other two fields not written; bound to two: the UsageError
\* "need at least 1 argument, got 0".
OptRestOneArg(F, args) ==
    /\ (Len(args) = 1 /\ ArgsParse(F, args, 1)) =>
          /\ ret'.err = Nil
          /\ fields'[1][1] = parser(F[1].parser, args[1]).v
          /\ fields'[1][2] = fields[1][2]
          /\ fields'[1][3] = fields[1][3]
    /\ (Len(args) = 2 /\ ArgsParse(F, args, 2)) => AtLeast(ret'.err, 1, 0)

\* C7, as the code has it: for [required, optional, rest(min=1)], bindFormals
\* with the single argument ["spec"] returns nil, having set the required
\* field and written neither the optional nor the rest field; it is with two
\* arguments that it fails with "need at least 1 argument, got 0".
C7_OneArgSucceeds ==
    [][(BindStep /\ ReqOptRest1(cmds[1].formals)) =>
            OptRestOneArg(cmds[1].formals, ret'.args)]_vars

\* [required, optional, rest(min=1)] was bound to one argument, with nil
\* returned and the rest field left nil.
C7_Witness ==
    /\ ret.call = "bindFormals"
    /\ ReqOptRest1(cmds[1].formals)
    /\ \A k \in 1..3 : cmds[1].formals[k].parser.kind = "string"
    /\ ret.args = <<"a">>
    /\ ret.err = Nil
    /\ fields[1] = <<"a", Zero(TString), NilSlice>>

\* The fields of the formals from k on are as they were.
Unwritten(F, k) == \A j \in k..Len(F) : fields'[1][F[j].field] = fields[1][F[j].field]

\* C8: when the arguments run out at a formal that is not a rest formal and is
\* itself marked opt, bindFormals returns nil and writes neither the field of
\* that formal nor the field of any later formal, a rest formal with a min of 1
\* or more included.
C8_OptionalStopFrame ==
    [][(BindStep /\ RunsOutAt(cmds[1].formals, ret'.args, Len(ret'.args) + 1)
               /\ cmds[1].formals[Len(ret'.args) + 1].opt) =>
            (ret'.err = Nil /\ Unwritten(cmds[1].formals, Len(ret'.args) + 1))]_vars

\* bindFormals stopped at an optional formal that a rest formal with a min of
\* 1 follows, and left what an earlier call had put in their fields.
C8_Witness ==
    /\ ret.call = "bindFormals"
    /\ ReqOptRest1(cmds[1].formals)
    /\ \A k \in 1..3 : cmds[1].formals[k].parser.kind = "string"
    /\ ret.args = <<"3">>
    /\ ret.err = Nil
    /\ fields[1] = <<"3", "a", [nil |-> FALSE, s |-> <<"a">>]>>

----------------------------------------------------------------------------
(* Dispatch to a struct with positional arguments (C11, C12).              *)

NextRunArgs ==
    \/ \E args \in SeqsUpTo(BindTokens, MaxBindArgs), env \in {e \in Envs : e.before = "nil"} :
          CallRun(args, env)
    \/ Drop

\* A program that calls Run, any number of times, on the top Command of one
\* struct with positional arguments.
SpecRunArgs == InitBind /\ [][NextRunArgs]_vars

\* The last call Run made was the Run method of the struct of cmds[c].
BehaviourInvoked(t, c) ==
    t # <<>> /\ t[Len(t)].ev = "Runnable.Run" /\ t[Len(t)].cmd = c

\* The zero value of the field that the formal f points to.
ZeroOf(f) == Zero(cmds[1].Struct.fields[f.field].type)

\* C11, as the specification states it: after any sequence of calls of Run on
\* the same struct, when the arguments run out at a formal marked opt, the
\* field of that formal and of every later formal holds its zero value when
\* the struct's Run method is called.
C11_Original ==
    (ret.call = "Run" /\ BehaviourInvoked(ret.trace, 1)
            /\ RunsOutAt(cmds[1].formals, ret.args, Len(ret.args) + 1)
            /\ cmds[1].formals[Len(ret.args) + 1].opt) =>
        \A j \in (Len(ret.args) + 1)..Len(cmds[1].formals) :
            fields[1][cmds[1].formals[j].field] = ZeroOf(cmds[1].formals[j])

\* C11, as the code has it: when the arguments run out at a formal marked opt,
\* Run calls the struct's Run method with the field of that formal and of every
\* later formal holding what it held before the call of Run: the zero value in
\* a struct that no call has written to, what an earlier call left otherwise.
C11_UnboundKeepValue ==
    [][(pc = "idle" /\ ret'.call = "Run"
            /\ RunsOutAt(cmds[1].formals, ret'.args, Len(ret'.args) + 1)
            /\ cmds[1].formals[Len(ret'.args) + 1].opt) =>
         (BehaviourInvoked(ret'.trace, 1)
            /\ Unwritten(cmds[1].formals, Len(ret'.args) + 1))]_vars

\* Run called the struct's Run method with an optional field that holds what
\* an earlier call of Run had put there.
C11_Witness ==
    /\ ret.call = "Run"
    /\ BehaviourInvoked(ret.trace, 1)
    /\ Len(cmds[1].formals) = 2
    /\ IsRequired(cmds[1].formals[1])
    /\ IsOptional(cmds[1].formals[2])
    /\ \A k \in 1..2 : cmds[1].formals[k].parser.kind = "string"
    /\ ret.args = <<"a">>
    /\ fields[1] = <<"a", "3">>

\* The last call Run made was bindFormals on cmds[c], and the first of the
\* arguments does not parse into the first formal.
FirstArgNotParsed(t, c) ==
    /\ t[Len(t)].ev = "bindFormals"
    /\ t[Len(t)].cmd = c
    /\ t[Len(t)].args # <<>>
    /\ cmds[c].formals # <<>>
    /\ IsRest(cmds[c].formals[1]) => Len(t[Len(t)].args) >= cmds[c].formals[1].min
    /\ ~parser(cmds[c].formals[1].parser, t[Len(t)].args[1]).ok

\* C12: when a positional argument does not parse (here the first, into a plain
\* or a rest formal), Run returns a UsageError with the Command that was binding,
\* whose message is the formal's name and the parser's error, and mainWithArgs
\* returns 2.
C12_CoercionIsUsageError ==
    (ret.call = "mainWithArgs" /\ ~ret.panicked /\ ret.trace # <<>>
            /\ FirstArgNotParsed(ret.trace, ret.trace[Len(ret.trace)].cmd)) =>
        /\ AsUsageError(ret.err)
        /\ ret.err.cmd = ret.trace[Len(ret.trace)].cmd
        /\ ret.err.name = cmds[ret.err.cmd].formals[1].name
        /\ ret.err.msg = "invalid syntax"
        /\ ret.exit = 2

----------------------------------------------------------------------------
(* The errors of Run (C13 .. C16).                                         *)

\* The last call of the trace t is Run on cmds[c].
EndsInRun(t, c) == t # <<>> /\ t[Len(t)].ev = "Run" /\ t[Len(t)].cmd = c

\* What the flag set of the Command of the last call of t made of its arguments.
LastParse(t) ==
    FlagSetParse(cmds[t[Len(t)].cmd], t[Len(t)].args, fields[t[Len(t)].cmd])

\* C13, as the specification states it: when the flags of a Command on the path
\* ask for help, the error Run returns is flag.ErrHelp and no UsageError is in
\* its chain.
HelpNotUsage(c, fp) ==
    fp.err = ErrHelp => (IsErrHelp(ret.err) /\ ~AsUsageError(ret.err))

C13_Original ==
    (ret.call = "mainWithArgs" /\ ~ret.panicked /\ ret.trace # <<>>
            /\ ret.trace[Len(ret.trace)].ev = "Run") =>
        HelpNotUsage(ret.trace[Len(ret.trace)].cmd, LastParse(ret.trace))

\* Every error of the flag set of c, help included, comes back as a UsageError
\* of c that wraps it.
FlagErrorWrapped(c, fp) ==
    fp.err # "" =>
        /\ AsUsageError(ret.err)
        /\ ret.err.cmd = c
        /\ ret.err.msg = fp.err
        /\ IsErrHelp(ret.err) <=> fp.err = ErrHelp
        /\ ret.exit = IF fp.err = ErrHelp THEN 0 ELSE 2

\* C13, as the code has it: when the flags of a Command on the path (the top
\* Command or a sub-command reached by dispatch) fail to parse, Run returns a
\* UsageError with that Command which wraps the flag set's error.  That holds
\* for help too: errors.Is(err, flag.ErrHelp) is true of the error and a
\* UsageError is in its chain; mainWithArgs asks for help first and returns 0,
\* and returns 2 for every other error of the flags.
C13_HelpWrapped ==
    (ret.call = "mainWithArgs" /\ ~ret.panicked /\ ret.trace # <<>>
            /\ ret.trace[Len(ret.trace)].ev = "Run") =>
        FlagErrorWrapped(ret.trace[Len(ret.trace)].cmd, LastParse(ret.trace))

\* Help was asked of a sub-command, and Run returned a UsageError of the
\* sub-command that wraps flag.ErrHelp.
C13_Witness ==
    /\ ret.call = "mainWithArgs"
    /\ Len(ret.trace) >= 2
    /\ EndsInRun(ret.trace, ret.err.cmd)
    /\ ret.err.cmd > 1
    /\ "-h" \in {ret.trace[Len(ret.trace)].args[i] : i \in 1..Len(ret.trace[Len(ret.trace)].args)}
    /\ AsUsageError(ret.err)
    /\ IsErrHelp(ret.err)

\* No Run method of a struct was called.
NoBehaviour(t) == \A k \in 1..Len(t) : t[k].ev # "Runnable.Run"

\* What C14 says of the call of Run on c that is event i of t, whose flags
\* parsed to fp.
UnknownCommandAt(t, i, c, fp) ==
    (validate(cmds, c) = Nil /\ fp.err = "" /\ fp.rest # <<>> /\ HookPassed(t, i)
            /\ cmds[c].subs # <<>> /\ cmds[c].formals = <<>>
            /\ SubsNamed(c, fp.rest[1]) = {}) =>
        /\ ret.err = UsageError(c, "unknown command", fp.rest[1])
        /\ Len(t) = AfterHook(t, i) - 1
        /\ NoBehaviour(t)

\* C14: in every call of Run on a Command (at any depth) that has sub-commands
\* and no positional arguments, when arguments are left after the flags and the
\* first of them names no sub-command, Run returns the UsageError of that
\* Command with the message unknown command "<the argument>", not one about
\* the number of arguments, and calls neither bindFormals nor a Run method.
C14_UnknownCommand ==
    ret.call = "Run" =>
        \A i \in 1..Len(ret.trace) :
            ret.trace[i].ev = "Run" =>
                UnknownCommandAt(ret.trace, i, ret.trace[i].cmd,
                                 FlagSetParse(cmds[ret.trace[i].cmd], ret.trace[i].args,
                                              fields[ret.trace[i].cmd]))

\* A sub-command with sub-commands of its own was given a name none of them has.
C14_Witness ==
    /\ ret.call = "Run"
    /\ Len(ret.trace) >= 2
    /\ EndsInRun(ret.trace, ret.err.cmd)
    /\ ret.err = UsageError(ret.err.cmd, "unknown command", "3")
    /\ ret.err.cmd > 1
    /\ cmds[ret.err.cmd].subs # <<>>
    /\ ret.trace[Len(ret.trace)].args = <<"3">>

\* What C15 says of the call of Run on c that is event i of t, whose flags
\* parsed to fp.
MissingSubCommandAt(t, i, c, fp) ==
    (validate(cmds, c) = Nil /\ fp.err = "" /\ fp.rest = <<>> /\ HookPassed(t, i)
            /\ ~Runnable(cmds[c].Struct) /\ cmds[c].formals = <<>>) =>
        /\ ret.err = UsageError(c, "missing sub-command", "")
        /\ NoBehaviour(t)

\* C15: in every call of Run on a Command (at any depth) whose struct is not
\* Runnable (a struct without a Run method and without positional arguments,
\* or a nil Struct) and that has sub-commands, when no argument is left after
\* the flags, Run returns the UsageError of that Command with the message
\* "missing sub-command" and calls no Run method.
C15_MissingSubCommand ==
    ret.call = "Run" =>
        \A i \in 1..Len(ret.trace) :
            ret.trace[i].ev = "Run" =>
                MissingSubCommandAt(ret.trace, i, ret.trace[i].cmd,
                                    FlagSetParse(cmds[ret.trace[i].cmd], ret.trace[i].args,
                                                 fields[ret.trace[i].cmd]))

\* Run reached a sub-command that is a group, with nothing left, and returned
\* "missing sub-command" for it.
C15_Witness ==
    /\ ret.call = "Run"
    /\ Len(ret.trace) >= 2
    /\ ret.err = UsageError(ret.err.cmd, "missing sub-command", "")
    /\ ret.err.cmd > 1
    /\ ~Runnable(cmds[ret.err.cmd].Struct)
    /\ ret.trace[Len(ret.trace)] = Event("bindFormals", ret.err.cmd, <<>>, Nil)

\* The error e that a method of the struct of cmds[c] returned, as Run hands
\* it on: a UsageError without a Command gets c, any other error is unchanged.
HandedOn(e, c) == IF AsUsageError(e) /\ e.cmd = 0 THEN [e EXCEPT !.cmd = c] ELSE e

\* What C16 says of a call of Run that returned err and whose last call, e,
\* was made on cmds[e.cmd], the deepest Command it reached.
OriginAt(err, e) ==
    /\ AsUsageError(err) => err.cmd = e.cmd
    /\ ~AsUsageError(err) => err.cmd = 0
    /\ (e.ev \in {"Before", "Runnable.Run"} /\ e.err # Nil) => err = HandedOn(e.err, e.cmd)
    /\ (e.ev = "Run" /\ validate(cmds, e.cmd) # Nil) => err = validate(cmds, e.cmd)

\* C16: every UsageError that Run returns, from any depth, has a Command, and
\* it is the Command where the error arose: the one whose flags or positional
\* arguments failed, or, for a UsageError that a Before hook or a Run method
\* returned without a Command, the deepest Command that Run reached, never one
\* above it.  An error that is not a UsageError comes back as it was returned.
C16_UsageErrorOrigin ==
    (ret.call = "Run" /\ ret.exit = -1 /\ ret.err # Nil) =>
        OriginAt(ret.err, ret.trace[Len(ret.trace)])

\* The Run method of a sub-command of a sub-command returned a UsageError
\* without a Command, and Run returned it with that sub-command.
C16_Witness ==
    /\ ret.call = "Run"
    /\ Len(ret.trace) >= 4
    /\ ret.trace[Len(ret.trace)].ev = "Runnable.Run"
    /\ ret.trace[Len(ret.trace)].err = NewUsageError("usage")
    /\ ret.trace[Len(ret.trace)].cmd = 3
    /\ cmds[3].super = 2
    /\ ret.err = UsageError(3, "usage", "")

----------------------------------------------------------------------------
(* Registration of a struct whose fields carry cli tags (C17 .. C20).      *)

\* The longest tag is made of MaxPieces of the Pieces, and a struct has the
\* field with that tag and at most one field before and one after it.
MaxPieces == 4
Pieces == {"flag=", "d", "2", "=", ",", " "}

\* strings.Join(ps, "")
RECURSIVE Concat(_)
Concat(ps) == IF ps = <<>> THEN "" ELSE Head(ps) \o Concat(Tail(ps))

Tags == {Concat(ps) : ps \in SeqsUpTo(Pieces, MaxPieces)}

\* The tags of the fields around: no tag, or the tag of a flag.
PlainTags == {"", "flag="}

\* A Runnable struct of exported string fields with the tags tags.
TagFieldNames == <<"Ab", "Cd", "Ef">>
TagStruct(tags) ==
    [name |-> "tags", runnable |-> TRUE, before |-> FALSE,
     fields |-> [k \in 1..Len(tags) |->
                    [Name |-> TagFieldNames[k], exported |-> TRUE, type |-> TString,
                     tag |-> tags[k]]]]

\* register returned r for the struct with the tags tags; ret.args keeps the tags.
registerTagsReturn(tags, r) ==
    /\ cmds' = r.cmds
    /\ fields' = IF r.err = Nil THEN Append(fields, ZeroStruct(TagStruct(tags))) ELSE fields
    /\ ret' = [NoRet EXCEPT !.call = "register", !.on = 1, !.name = "a",
                            !.st = "tags", !.args = tags, !.err = r.err]

\* cmds[1].register(&Command{Name: "a", Struct: &s}) for a struct s with the tags tags.
RegisterTags(tags) ==
    /\ pc = "build"
    /\ Len(cmds) = 1
    /\ registerTagsReturn(tags, register(cmds, 1, NewCommand("a", TagStruct(tags))))
    /\ pc' = "returned"
    /\ UNCHANGED errorHandling

\* tagToMap(tag), as TestTagToMap calls it.
TagToMap(tag) ==
    /\ pc = "build"
    /\ ret' = [NoRet EXCEPT !.call = "tagToMap", !.args = <<tag>>, !.m = tagToMap(tag)]
    /\ pc' = "returned"
    /\ UNCHANGED <<cmds, fields, errorHandling>>

\* Top(nil) is done.
InitTags ==
    /\ cmds = << processFields([NewCommand("prog", Structs["nil"])
                                   EXCEPT !.isCommandLine = TRUE]).c >>
    /\ fields = << ZeroStruct(Structs["nil"]) >>
    /\ errorHandling = "ExitOnError"
    /\ pc = "build"
    /\ ret = NoRet

\* The program registers one of the structs while it builds its commands.
NextTags ==
    \/ /\ pc = "build" /\ Len(cmds) = 1
       /\ \E pre \in SeqsUpTo(PlainTags, 1), tag \in Tags, post \in SeqsUpTo(PlainTags, 1) :
             RegisterTags(pre \o <<tag>> \o post)
    \/ /\ pc = "build" /\ Len(cmds) = 1
       /\ \E tag \in Tags : TagToMap(tag)
    \/ Drop

\* Registration alone: one struct with tags is registered under the top command.
SpecTags == InitTags /\ [][NextTags]_vars

\* register took the struct: its Command is cmds[2] and its fields are fields[2].
Registered == ret.call = "register" /\ ret.st = "tags" /\ ret.err = Nil

\* The formals and the flags of cmds[c] that stand for field k of its struct.
FormalsOf(c, k) == {i \in 1..Len(cmds[c].formals) : cmds[c].formals[i].field = k}
FlagsOf(c, k) == {i \in 1..Len(cmds[c].flags) : cmds[c].flags[i].field = k}

\* C17, as the specification states it: an exported field with an empty tag is
\* skipped by registration: it adds no flag and no positional Formal, and no
\* command-line argument is written into it.
C17_Original ==
    \A k \in 1..Len(cmds[1].Struct.fields) :
        cmds[1].Struct.fields[k].tag = "" =>
            /\ FormalsOf(1, k) = {}
            /\ FlagsOf(1, k) = {}
            /\ fields[1][k] = Zero(cmds[1].Struct.fields[k].type)

\* Field k has an empty tag and stands for formal i, and the arguments args reach
\* that formal and are parsed up to it.
EmptyTagBound(k, i, args) ==
    /\ cmds[1].Struct.fields[k].tag = ""
    /\ i \in FormalsOf(1, k)
    /\ i <= Len(args)
    /\ ArgsParse(cmds[1].formals, args, i)

\* C17, amended: an exported field with an empty tag is not skipped: registration
\* adds no flag for it but one positional Formal, and bindFormals writes into the
\* field the command-line argument at the place of that Formal.
C17_EmptyTagIsFormal ==
    /\ \A k \in 1..Len(cmds[1].Struct.fields) :
          cmds[1].Struct.fields[k].tag = "" =>
              FlagsOf(1, k) = {} /\ Cardinality(FormalsOf(1, k)) = 1
    /\ (ret.call = "bindFormals" /\ ret.err = Nil) =>
          \A k \in 1..Len(cmds[1].Struct.fields), i \in 1..Len(cmds[1].formals) :
              EmptyTagBound(k, i, ret.args) =>
                  fields[1][k] = parser(cmds[1].formals[i].parser, ret.args[i]).v

C17_Witness ==
    /\ ret.call = "bindFormals"
    /\ ret.err = Nil
    /\ Len(cmds[1].Struct.fields) = 2
    /\ cmds[1].Struct.fields[1].tag = ""
    /\ cmds[1].Struct.fields[2].tag = ""
    /\ cmds[1].formals[1].parser.kind = "string"
    /\ cmds[1].formals[2].parser.kind = "int"
    /\ ret.args = <<"a", "3">>
    /\ fields[1] = <<"a", 3>>

\* The fields before field k of the registered struct that are not flags.
FormalFieldsBefore(k) == {j \in 1..(k - 1) : FlagsOf(2, j) = {}}

\* The Formal that stands for the untagged field k: named by the upper-cased
\* field name, without documentation, after the Formals of the fields before k.
UntaggedFormal(k, f, i) ==
    /\ f.name = ToUpper(cmds[2].Struct.fields[k].Name)
    /\ f.usage = ""
    /\ i = Cardinality(FormalFieldsBefore(k)) + 1

\* C18: an exported field without a tag is registered as a positional argument
\* with no documentation, named by the upper-cased field name and placed in the
\* positional list at its declaration position among the fields of the struct.
C18_UntaggedIsPositional ==
    Registered =>
        \A k \in 1..Len(ret.args) :
            ret.args[k] = "" =>
                /\ FlagsOf(2, k) = {}
                /\ \E i \in 1..Len(cmds[2].formals) : FormalsOf(2, k) = {i}
                /\ \A i \in FormalsOf(2, k) : UntaggedFormal(k, cmds[2].formals[i], i)

C18_Witness ==
    /\ Registered
    /\ ret.args = <<"flag=", "d", "">>
    /\ Len(cmds[2].flags) = 1
    /\ Len(cmds[2].formals) = 2
    /\ cmds[2].formals[2].field = 3
    /\ cmds[2].formals[2].name = "EF"
    /\ cmds[2].formals[2].usage = ""

\* The key= prefix of the specification's grammar: the first n characters of tag
\* are alphanumerics, one or more, that start with a letter, and "=" follows them.
IsKeyPrefix(tag, n) ==
    /\ n >= 1
    /\ n < Len(tag)
    /\ Head(tag) \in LowerLetters \cup UpperLetters
    /\ \A i \in 1..n : SubSeq(tag, i, i) \in LowerLetters \cup UpperLetters \cup DecimalDigits
    /\ SubSeq(tag, n + 1, n + 1) = "="

\* The length of the key that tag starts with, 0 when it starts with no key.
KeyLen(tag) ==
    IF \E n \in 1..Len(tag) : IsKeyPrefix(tag, n)
    THEN CHOOSE n \in 1..Len(tag) : IsKeyPrefix(tag, n)
    ELSE 0

\* What follows the first comma of s, "" when s has no comma.
AfterComma(s, i) == IF i = 0 THEN "" ELSE TrimSpace(SubSeq(s, i + 1, Len(s)))

\* The keys of the entries key=value that the tag starts with, up to the first
\* entry without a key.
RECURSIVE EntryKeys(_)
EntryKeysFrom(tag, n) ==
    IF n = 0 THEN {}
    ELSE {SubSeq(tag, 1, n)}
            \cup EntryKeys(AfterComma(SubSeq(tag, n + 2, Len(tag)),
                                      IndexFrom(SubSeq(tag, n + 2, Len(tag)), ",", 1)))

EntryKeys(tag) == EntryKeysFrom(tag, KeyLen(tag))

\* C19: when a tag has an entry key=value whose key, one or more alphanumerics
\* that start with a letter, is not one of flag, name, doc, oneof, min, opt, the
\* registration of the struct fails with an error.
C19_UnknownKeyRejected ==
    (ret.call = "register" /\ ret.st = "tags") =>
        \A k \in 1..Len(ret.args) :
            (\E key \in EntryKeys(TrimSpace(ret.args[k])) : key \notin validKeys)
                => ret.err # Nil

\* The entries of a tag by the grammar of the specification, in their order: an
\* entry key=value has the text up to the next comma as its value, without the
\* white space around it; the first entry without a key= prefix is the doc, with
\* everything after it, and is the last entry.
RECURSIVE Entries(_)
EntryCut(tag, n, rest, i) ==
    << [key |-> SubSeq(tag, 1, n),
        value |-> TrimSpace(IF i = 0 THEN rest ELSE SubSeq(rest, 1, i - 1))] >>
        \o Entries(AfterComma(rest, i))

EntryAt(tag, n) ==
    IF n = 0 THEN << [key |-> "doc", value |-> tag] >>
    ELSE EntryCut(tag, n, SubSeq(tag, n + 2, Len(tag)),
                  IndexFrom(SubSeq(tag, n + 2, Len(tag)), ",", 1))

Entries(tag) == IF tag = "" THEN <<>> ELSE EntryAt(tag, KeyLen(tag))

\* m is the map of the entries es: it has the keys of the entries, each with the
\* value of the last entry of that key.
MapOfEntries(m, es) ==
    /\ DOMAIN m = {es[i].key : i \in 1..Len(es)}
    /\ \A i \in 1..Len(es) :
          (\A j \in (i + 1)..Len(es) : es[j].key # es[i].key) => m[es[i].key] = es[i].value

\* C20: tagToMap follows the grammar: every leading entry key=value sets key to
\* the text up to the next comma without the white space around it; the first
\* entry without a key= prefix becomes the doc with everything after it and ends
\* the parsing; white space around the whole tag does not change the result; the
\* empty tag gives the empty map; a key with an empty value (flag=) is in the map
\* with the value "".
C20_TagGrammar ==
    ret.call = "tagToMap" =>
        /\ MapOfEntries(ret.m, Entries(TrimSpace(ret.args[1])))
        /\ tagToMap(" " \o ret.args[1] \o " ") = ret.m
        /\ ret.args[1] = "" => ret.m = EmptyMap
        /\ ret.args[1] = "flag=" => ("flag" \in DOMAIN ret.m /\ ret.m["flag"] = "")

----------------------------------------------------------------------------
(* A command with one field, a flag or a positional argument of any of the *)
(* types, is registered under the top command and run (C21 .. C28).        *)

\* The number of words that follow the command's name on the command line.
MaxParseArgs == 2

TInt8 == [kind |-> "int8", elem |-> ""]
TUint8 == [kind |-> "uint8", elem |-> ""]
ParseTypes == {TString, TInt, TInt8, TUint8, TSlice("string"), TSlice("int")}

\* The type as Go writes it.
TypeName(t) == IF t.kind = "slice" THEN "[]" \o t.elem ELSE t.kind

\* The tags of the field: a positional argument or a flag, with or without
\* choices and doc.
ParseTags == {"", "flag=", "oneof=b | a, d", "flag=, oneof=b | a, d", "oneof= ", "flag=, d"}

\* The words of the command line.
ParseWords ==
    {"-fd", "a", "b", " a", "c", "127", "128", "-129", "256", "-1", "1 , -2,3", "1,x", "b,a", "a, c"}

\* A Runnable struct with the one exported field Fd of type t with the tag tag.
FieldStruct(t, tag) ==
    [name |-> TypeName(t), runnable |-> TRUE, before |-> FALSE,
     fields |-> << [Name |-> "Fd", exported |-> TRUE, type |-> t, tag |-> tag] >>]

\* register returned r for the struct with the field of type t and the tag tag;
\* ret.st keeps the type and ret.args the tag.
registerFieldReturn(t, tag, r) ==
    /\ cmds' = r.cmds
    /\ fields' = IF r.err = Nil THEN Append(fields, ZeroStruct(FieldStruct(t, tag))) ELSE fields
    /\ ret' = [NoRet EXCEPT !.call = "register", !.on = 1, !.name = "a",
                            !.st = TypeName(t), !.args = <<tag>>, !.err = r.err]

\* cmds[1].register(&Command{Name: "a", Struct: &s}) for such a struct s.
RegisterField(t, tag) ==
    /\ pc = "build"
    /\ Len(cmds) = 1
    /\ registerFieldReturn(t, tag, register(cmds, 1, NewCommand("a", FieldStruct(t, tag))))
    /\ pc' = "returned"
    /\ UNCHANGED errorHandling

\* The methods of the struct return nil.
NilEnv == [run |-> "nil", before |-> "nil"]

NextParse ==
    \/ /\ pc = "build" /\ Len(cmds) = 1
       /\ \E t \in ParseTypes, tag \in ParseTags : RegisterField(t, tag)
    \/ /\ pc \in {"build", "idle"} /\ Len(cmds) = 2
       /\ \E words \in SeqsUpTo(ParseWords, MaxParseArgs) : CallRun(<<"a">> \o words, NilEnv)
    \/ Drop

\* A program with one command of one field, which it runs.
SpecParse == InitTags /\ [][NextParse]_vars

\* The field of the registered command has a tag that declares the choices
\* "b " and " a", in this order.
DeclaresChoices(tag) == tag \in {"oneof=b | a, d", "flag=, oneof=b | a, d"}

\* Run was called with the words ws after the name of the command, none of
\* which the flag set reads as a flag.
RanWords(ws) ==
    /\ ret.call = "Run"
    /\ ret.args = <<"a">> \o ws
    /\ \A i \in 1..Len(ws) : Head(ws[i]) # "-"

\* The command has the one positional argument of type t with the choices.
OneofPositional(t) ==
    /\ Len(cmds) = 2
    /\ cmds[2].Struct.fields[1].type = t
    /\ cmds[2].Struct.fields[1].tag = "oneof=b | a, d"

\* C21: a oneof parser accepts an input exactly when it is one of the declared
\* choices, each trimmed of the white space around it, and returns that choice;
\* it rejects every other input with an error that lists all the choices in the
\* order they were declared in; oneof on a field whose type, or element type, is
\* not a string fails the registration with "oneof must be string type".
C21_Oneof ==
    /\ \A w \in ParseWords :
          (OneofPositional(TString) /\ RanWords(<<w>>)) =>
              IF w \in {"b", "a"}
              THEN ret.err = Nil /\ fields[2][1] = w
              ELSE ret.err = Errorf("must be one of: b, a", "FD") /\ fields[2][1] # w
    /\ \A w1, w2 \in ParseWords :
          (OneofPositional(TSlice("string")) /\ RanWords(<<w1, w2>>)) =>
              IF {w1, w2} \subseteq {"b", "a"}
              THEN ret.err = Nil /\ fields[2][1] = [nil |-> FALSE, s |-> <<w1, w2>>]
              ELSE ret.err = Errorf("must be one of: b, a", "FD")
    /\ (ret.call = "register" /\ ret.name = "a" /\ DeclaresChoices(ret.args[1])) =>
          IF ret.st \in {"string", "[]string"} THEN ret.err = Nil
          ELSE ret.err = Errorf("oneof must be string type", "Fd")

C21_Witness ==
    /\ OneofPositional(TString)
    /\ RanWords(<< " a" >>)
    /\ ret.err = Errorf("must be one of: b, a", "FD")
    /\ fields[2][1] = "b"

\* This step is cmds[1].Run(ctx, <<"a", "-fd", w>>) on a tree whose command a
\* has the flag fd.
RunsFlag(w) ==
    /\ pc \in {"build", "idle"}
    /\ Len(cmds) = 2
    /\ Len(cmds[2].flags) = 1
    /\ ret'.call = "Run"
    /\ ret'.args = <<"a", "-fd", w>>

\* C22: for every flag that is not boolean, a string flag with oneof too: when
\* the flag set accepts -fd w, the field holds the value the parser makes of w
\* when the struct's Run is called; when the parser fails the field is as it was
\* and the failure is the error of the flag fd.
C22_FlagSetsField ==
    [][\A w \in ParseWords :
          RunsFlag(w) =>
              IF ret'.err = Nil
              THEN /\ parser(cmds[2].flags[1].parser, w).ok
                   /\ fields'[2][1] = parser(cmds[2].flags[1].parser, w).v
                   /\ ret'.trace[Len(ret'.trace)].ev = "Runnable.Run"
              ELSE /\ ~parser(cmds[2].flags[1].parser, w).ok
                   /\ ret'.err = UsageError(2, "invalid value", "fd")
                   /\ fields' = fields]_vars

\* The integers a field of the kind can hold.
InWidth(kind, n) == IF kind = "int8" THEN n \in -128..127 ELSE n \in 0..255

\* Run gave the word w to the one field of the command a, of type t: as its
\* positional argument, or as the value of its flag fd.
GaveWord(t, w) ==
    /\ Len(cmds) = 2
    /\ cmds[2].Struct.fields[1].type = t
    /\ ret.call = "Run"
    /\ \/ cmds[2].Struct.fields[1].tag = "" /\ Head(w) # "-" /\ ret.args = <<"a", w>>
       \/ cmds[2].Struct.fields[1].tag = "flag=" /\ ret.args = <<"a", "-fd", w>>

\* C24: the parser of a signed or unsigned integer field of 8 bits accepts a
\* base-10 input whose value fits in 8 bits and stores that value; it rejects
\* every input whose value does not fit, and the field never holds a value
\* reduced modulo 2^8.
C24_WidthChecked ==
    \A t \in {TInt8, TUint8} : \A w \in {"127", "128", "-129", "256", "-1"} :
        GaveWord(t, w) =>
            IF InWidth(t.kind, ParseInt(w).v)
            THEN ret.err = Nil /\ fields[2][1] = ParseInt(w).v
            ELSE ret.err # Nil /\ fields[2][1] = 0

\* The slice value with the elements es.
SliceOf(es) == [nil |-> FALSE, s |-> es]

\* What the claim expects of a []int flag given the value w: the elements, or
\* the part that is no integer.
IntSlice(w) ==
    CASE w = "1 , -2,3" -> [ok |-> TRUE, v |-> <<1, -2, 3>>, bad |-> ""]
      [] w = "127" -> [ok |-> TRUE, v |-> <<127>>, bad |-> ""]
      [] w = "-1" -> [ok |-> TRUE, v |-> <<-1>>, bad |-> ""]
      [] w = "1,x" -> [ok |-> FALSE, v |-> <<>>, bad |-> "x"]
      [] w = "a, c" -> [ok |-> FALSE, v |-> <<>>, bad |-> "a"]
      [] w = " a" -> [ok |-> FALSE, v |-> <<>>, bad |-> "a"]

\* What the claim expects of a []string flag given the value w.
StringSlice(w) ==
    CASE w = "1 , -2,3" -> <<"1", "-2", "3">>
      [] w = "b,a" -> <<"b", "a">>
      [] w = "a, c" -> <<"a", "c">>
      [] w = " a" -> <<"a">>
      [] w = "c" -> <<"c">>

\* The command a has the one flag fd, a slice of elem.
SliceFlag(elem) ==
    /\ Len(cmds) = 2
    /\ cmds[2].Struct.fields[1].type = TSlice(elem)
    /\ cmds[2].Struct.fields[1].tag = "flag="

\* The command a has the one positional argument, a slice of elem.
SlicePositional(elem) ==
    /\ Len(cmds) = 2
    /\ cmds[2].Struct.fields[1].type = TSlice(elem)
    /\ cmds[2].Struct.fields[1].tag = ""

\* Run was called with -fd w after the name of the command.
RanFlag(w) == ret.call = "Run" /\ ret.args = <<"a", "-fd", w>>

\* C25: the parser of a slice flag splits the value on commas, trims each part
\* and gives it to the element parser, in order; when every part parses the
\* field holds one element per part in that order; at the first part that does
\* not parse the parser fails with the element's error after the quoted part
\* and the flag set refuses the value.  A slice positional has the element
\* parser, which gets each argument whole.
C25_SliceFlag ==
    /\ \A w \in {"1 , -2,3", "127", "-1", "1,x", "a, c", " a"} :
          (SliceFlag("int") /\ RanFlag(w)) =>
              IF IntSlice(w).ok
              THEN /\ parser(cmds[2].flags[1].parser, w) = Value(SliceOf(IntSlice(w).v))
                   /\ ret.err = Nil
                   /\ fields[2][1] = SliceOf(IntSlice(w).v)
              ELSE /\ parser(cmds[2].flags[1].parser, w) =
                          ParseError(Quote(IntSlice(w).bad) \o ": invalid syntax")
                   /\ ret.err = UsageError(2, "invalid value", "fd")
    /\ \A w \in {"1 , -2,3", "b,a", "a, c", " a", "c"} :
          (SliceFlag("string") /\ RanFlag(w)) =>
              /\ parser(cmds[2].flags[1].parser, w) = Value(SliceOf(StringSlice(w)))
              /\ ret.err = Nil
              /\ fields[2][1] = SliceOf(StringSlice(w))
    /\ \A w1, w2 \in {"b,a", "a, c", " a", "c"} :
          (SlicePositional("string") /\ RanWords(<<w1, w2>>)) =>
              ret.err = Nil /\ fields[2][1] = SliceOf(<<w1, w2>>)
    /\ \A w1, w2 \in {"127", "128", "1 , -2,3", "1,x"} :
          (SlicePositional("int") /\ RanWords(<<w1, w2>>)) =>
              IF {w1, w2} \subseteq {"127", "128"}
              THEN ret.err = Nil /\ fields[2][1] = SliceOf(<<ParseInt(w1).v, ParseInt(w2).v>>)
              ELSE ret.err = Errorf("invalid syntax", "FD")

C25_Witness ==
    /\ SliceFlag("int")
    /\ RanFlag("1 , -2,3")
    /\ fields[2][1] = SliceOf(<<1, -2, 3>>)

\* C28: a positional argument or a flag declared with oneof is registered with
\* the usage text made of its doc, then "; one of ", then the trimmed choices
\* joined by ", " in the order of the declaration.
C28_OneofUsage ==
    (Len(cmds) = 2 /\ cmds[2].Struct.fields[1].type.kind = "string") =>
        /\ cmds[2].Struct.fields[1].tag = "oneof=b | a, d" =>
              /\ Len(cmds[2].formals) = 1
              /\ cmds[2].formals[1].usage = "d; one of b, a"
        /\ cmds[2].Struct.fields[1].tag = "flag=, oneof=b | a, d" =>
              /\ Len(cmds[2].flags) = 1
              /\ cmds[2].flags[1].usage = "d; one of b, a"

----------------------------------------------------------------------------
(* Structs of exported and unexported fields, with and without the cli key *)
(* in their tags, are given to Top and to register (C23, C26).             *)

\* The number of fields of such a struct.
MaxDeclFields == 2

\* The struct tags: none, a tag of another package, the cli key, and both.
DeclTags == {"", "json:\"x\"", "cli:\"d\"", "json:\"x\" cli:\"d\""}

DeclFields == [exported : BOOLEAN, type : {TString, TSlice("string")}, tag : DeclTags]

\* A Runnable struct with the fields fds: field k is called A, B, .. when it is
\* exported and a, b, .. when it is not.
DeclStruct(fds) ==
    [name |-> "decl", runnable |-> TRUE, before |-> FALSE,
     fields |-> [k \in 1..Len(fds) |->
                    [Name |-> IF fds[k].exported THEN FieldNames[k] ELSE ToLower(FieldNames[k]),
                     exported |-> fds[k].exported, type |-> fds[k].type, tag |-> fds[k].tag]]]

\* cmds[1].register(&Command{Name: "a", Struct: &st}); ret.args keeps the fields
\* the struct was declared with.
RegisterStruct(st) ==
    /\ pc = "build"
    /\ Len(cmds) = 1
    /\ cmds' = register(cmds, 1, NewCommand("a", st)).cmds
    /\ fields' = IF register(cmds, 1, NewCommand("a", st)).err = Nil
                 THEN Append(fields, ZeroStruct(st)) ELSE fields
    /\ ret' = [NoRet EXCEPT !.call = "register", !.on = 1, !.name = "a", !.st = st.name,
                            !.args = st.fields,
                            !.err = register(cmds, 1, NewCommand("a", st)).err]
    /\ pc' = "returned"
    /\ UNCHANGED errorHandling

NextStructs ==
    \/ /\ pc = "build" /\ cmds = <<>>
       /\ \E fds \in SeqsUpTo(DeclFields, MaxDeclFields) : Top(DeclStruct(fds))
    \/ /\ pc = "build" /\ Len(cmds) = 1
       /\ \E fds \in SeqsUpTo(DeclFields, MaxDeclFields) : RegisterStruct(DeclStruct(fds))
    \/ Drop

\* The program declares its top command and one sub-command.
SpecStructs == Init /\ [][NextStructs]_vars

\* The positional arguments of cmds[c] have a rest Formal only in the last place.
RestIsLast(c) ==
    \A i \in 1..Len(cmds[c].formals) :
        cmds[c].formals[i].min >= 0 => i = Len(cmds[c].formals)

\* The struct with the fields fds declares only what parseTag accepts, and has
\* a slice among its positional arguments that is not the last of them.
SliceNotLast(fds) ==
    /\ \A k \in 1..Len(fds) : fds[k].exported
    /\ \E k \in 1..Len(fds) : fds[k].type.kind = "slice" /\ k < Len(fds)

\* C23: in every tree built with Top and Register every Command, the top one
\* too, has a rest Formal only as the last of its positional arguments; a struct
\* with a slice before another positional argument is refused with "is a slice
\* but not the last arg".
C23_RestIsLast ==
    /\ \A c \in 1..Len(cmds) : RestIsLast(c)
    /\ (ret.call = "register" /\ ret.st = "decl" /\ SliceNotLast(ret.args)) =>
          ret.err.msg = "is a slice but not the last arg"

\* The struct tag has the key cli.
HasCliKey(tag) == tag \in {"cli:\"d\"", "json:\"x\" cli:\"d\""}

\* register was called with a struct of the fields ret.args.
RegisteredDecl == ret.call = "register" /\ ret.st = "decl"

\* C26: registration ignores unexported fields: none of them becomes a flag or
\* a positional argument, and registration fails for an unexported field only
\* when its tag has the key cli, whatever other keys the tag has.
C26_UnexportedIgnored ==
    /\ \A c \in 1..Len(cmds) :
          /\ \A i \in 1..Len(cmds[c].formals) :
                cmds[c].Struct.fields[cmds[c].formals[i].field].exported
          /\ \A i \in 1..Len(cmds[c].flags) :
                cmds[c].Struct.fields[cmds[c].flags[i].field].exported
    /\ RegisteredDecl =>
          \A k \in 1..Len(ret.args) :
              (~ret.args[k].exported /\ ~HasCliKey(ret.args[k].tag)) =>
                  ret.err # Errorf("cli tag on unexported field", ret.args[k].Name)

----------------------------------------------------------------------------
(* Dispatch: what Run writes, and which methods of the structs it calls    *)
(* (C27, C29, C30).                                                        *)

LastRunAt(t) == CHOOSE j \in 1..Len(t) : t[j].ev = "Run" /\ \A k \in (j + 1)..Len(t) : t[k].ev # "Run"

\* The flags of c parse the arguments args without error, and the formals of c
\* are bound to rest without error, from the fields F of its struct.
ParsedAndBound(c, args, rest, F) ==
    /\ FlagSetParse(cmds[c], args, F).err = ""
    /\ FlagSetParse(cmds[c], args, F).rest = rest
    /\ bindFormals(c, cmds[c].formals, rest, FlagSetParse(cmds[c], args, F).flds).err = Nil

\* What C29 says of event i of the trace t when it is a struct's Run, with j
\* the place of the last call of Command.Run.
RunIsLast(t, i, j) ==
    /\ i = Len(t)
    /\ t[i].cmd = t[j].cmd
    /\ t[i - 1].ev = "bindFormals"
    /\ t[i - 1].cmd = t[i].cmd
    /\ ParsedAndBound(t[i].cmd, t[j].args, t[i - 1].args, fields[t[i].cmd])

\* C29: a call of Command.Run calls the Run of at most one struct, that of the
\* Command the dispatch resolved to, after that Command's flags were parsed and
\* its positional arguments bound without error; it never calls the Run of a
\* Command further up, and calls none when the dispatch ended in an error
\* before that point.
C29_OneRun ==
    [][ret'.call = "Run" =>
          \A i \in 1..Len(ret'.trace) :
              ret'.trace[i].ev = "Runnable.Run" =>
                  RunIsLast(ret'.trace, i, LastRunAt(ret'.trace))]_vars

\* The Run of the struct of a sub-command was called, and not the Run that the
\* struct of the top command has too.
C29_Witness ==
    /\ ret.call = "Run"
    /\ Runnable(cmds[1].Struct)
    /\ ret.trace[Len(ret.trace)].ev = "Runnable.Run"
    /\ ret.trace[Len(ret.trace)].cmd > 1
    /\ \A i \in 1..(Len(ret.trace) - 1) : ret.trace[i].ev # "Runnable.Run"

\* The flags of the Command of event j of the trace t, a call of Command.Run,
\* parse its arguments without error, from the fields before the call.
FlagsParsed(t, j) ==
    /\ validate(cmds, t[j].cmd) = Nil
    /\ FlagSetParse(cmds[t[j].cmd], t[j].args, fields[t[j].cmd]).err = ""

\* Event j of t is a call of Command.Run: when the struct has a Before hook and
\* the flags parsed, the hook is the next event; a Command below the top one
\* is a sub-command of the Command of the call before, with nothing in between
\* but that Command's hook.
RunThenBefore(t, j) ==
    /\ (cmds[t[j].cmd].Struct.before /\ FlagsParsed(t, j)) =>
          /\ j < Len(t)
          /\ t[j + 1].ev = "Before"
          /\ t[j + 1].cmd = t[j].cmd
    /\ j > 1 =>
          \E k \in 1..(j - 1) :
              /\ t[k].ev = "Run"
              /\ t[k].cmd = cmds[t[j].cmd].super
              /\ \A m \in (k + 1)..(j - 1) : t[m].ev = "Before" /\ t[m].cmd = t[k].cmd

\* Event i of t is a call of a Before hook: it follows the call of Command.Run
\* on its Command, whose flags parsed; when it returns an error, it is the last
\* event and Run returns that error.
BeforeAfterFlags(t, i, err) ==
    /\ i > 1
    /\ t[i - 1].ev = "Run"
    /\ t[i - 1].cmd = t[i].cmd
    /\ cmds[t[i].cmd].Struct.before
    /\ FlagsParsed(t, i - 1)
    /\ t[i].err # Nil => i = Len(t) /\ err = HandedOn(t[i].err, t[i].cmd)

\* C30: on the way from the top command to the Command the dispatch resolves
\* to, the Before hook of every struct that has one is called once, right after
\* the flags of its Command are parsed and before a sub-command is looked for or
\* a positional argument is bound, so from the top down and before the struct's
\* Run; when a hook returns an error the dispatch ends there with that error:
\* no flags further down are parsed, nothing is bound and no Run is called.
C30_BeforeHooks ==
    [][ret'.call = "Run" =>
          \A i \in 1..Len(ret'.trace) :
              /\ ret'.trace[i].ev = "Run" => RunThenBefore(ret'.trace, i)
              /\ ret'.trace[i].ev = "Before" => BeforeAfterFlags(ret'.trace, i, ret'.err)]_vars

\* Two hooks were called, of the top command and then of its sub-command, and
\* then the Run of the struct of a third Command.
C30_Witness ==
    /\ ret.call = "Run"
    /\ Len(ret.trace) >= 7
    /\ ret.trace[2] = Event("Before", 1, <<>>, Nil)
    /\ ret.trace[4] = Event("Before", 2, <<>>, Nil)
    /\ ret.trace[Len(ret.trace)].ev = "Runnable.Run"
    /\ ret.trace[Len(ret.trace)].cmd = 3

====
